---- MODULE Spec2Model ----
(***************************************************************************)
(* A model of the api-linter validation engine: the orchestrator           *)
(* runValidation, its eleven validators, the severity filter and the       *)
(* common-field registry the validators consult.                           *)
(*                                                                         *)
(* JavaScript values are modelled as tagged records, JavaScript strings    *)
(* that the code builds from templates as sequences of string tokens, and  *)
(* a thrown TypeError as a result record whose threw field is TRUE.        *)
(***************************************************************************)
EXTENDS Integers, Sequences, FiniteSets, TLC

VARIABLES
    apiSpec,                  \* the parsed spec object the caller holds
    commonFieldDefinitions,   \* registry: canonical name -> definition
    commonFieldMap,           \* registry: spelling -> canonical name
    call,                     \* the last call of a function of the linter and its outcome
    previous,                 \* the call before it
    commonYaml,               \* config/common.yaml as the registry module found it
    process                   \* "running", or "exited" after process.exit

vars == <<apiSpec, commonFieldDefinitions, commonFieldMap, call, previous,
          commonYaml, process>>

(***************************************************************************)
(* JavaScript values.                                                      *)
(***************************************************************************)
Undef == [k |-> "undef"]
Null == [k |-> "null"]
Thrown == [k |-> "thrown"]
Str(s) == [k |-> "str", s |-> s]
Num(n) == [k |-> "num", n |-> n]
Bool(b) == [k |-> "bool", b |-> b]
Arr(a) == [k |-> "arr", a |-> a]
Obj(o) == [k |-> "obj", o |-> o]

IsNullish(v) == v.k \in {"undef", "null"}

\* typeof v === 'object' (true of null and of arrays)
TypeofObject(v) == v.k \in {"null", "arr", "obj"}

\* the truthiness of a value: !!v
Truthy(v) ==
    CASE v.k = "undef" -> FALSE
      [] v.k = "null" -> FALSE
      [] v.k = "str" -> v.s # ""
      [] v.k = "num" -> v.n # 0
      [] v.k = "bool" -> v.b
      [] OTHER -> TRUE

RECURSIVE Lookup(_, _, _)
Lookup(entries, key, i) ==
    IF i > Len(entries) THEN Undef
    ELSE IF entries[i][1] = key THEN entries[i][2]
    ELSE Lookup(entries, key, i + 1)

\* v.key, a TypeError (Thrown) when v is undefined or null
Get(v, key) ==
    CASE v.k \in {"undef", "null", "thrown"} -> Thrown
      [] v.k = "obj" -> Lookup(v.o, key, 1)
      [] OTHER -> Undef

\* v?.key
GetOpt(v, key) ==
    CASE v.k = "thrown" -> Thrown
      [] v.k \in {"undef", "null"} -> Undef
      [] OTHER -> Get(v, key)

\* a || b on values
OrElse(a, b) == IF a.k = "thrown" THEN Thrown ELSE IF Truthy(a) THEN a ELSE b

\* Object.entries(v) as a sequence of <<key, value>>; an array's keys are its
\* indices. Only called on values that are not undefined or null.
IndexKey(i) == CASE i = 0 -> "0" [] i = 1 -> "1" [] i = 2 -> "2" [] i = 3 -> "3"

Entries(v) ==
    CASE v.k = "obj" -> v.o
      [] v.k = "arr" -> [i \in 1..Len(v.a) |-> <<IndexKey(i - 1), v.a[i]>>]
      [] OTHER -> <<>>

Keys(v) == [i \in 1..Len(Entries(v)) |-> Entries(v)[i][1]]
Values(v) == [i \in 1..Len(Entries(v)) |-> Entries(v)[i][2]]

SeqIncludes(seq, x) == \E i \in 1..Len(seq) : seq[i] = x

\* the strings names as values
Strs(names) == [i \in 1..Len(names) |-> Str(names[i])]

(***************************************************************************)
(* Conditions that may throw: "T", "F", or "X" for a TypeError raised      *)
(* while the condition is evaluated.                                       *)
(***************************************************************************)
Lift(b) == IF b THEN "T" ELSE "F"
T3(v) == IF v.k = "thrown" THEN "X" ELSE Lift(Truthy(v))
Not3(c) == CASE c = "T" -> "F" [] c = "F" -> "T" [] OTHER -> "X"
And3(a, b) == IF a = "T" THEN b ELSE a
Or3(a, b) == IF a = "F" THEN b ELSE a
\* v === w, v !== w
Eq3(v, w) == IF v.k = "thrown" \/ w.k = "thrown" THEN "X" ELSE Lift(v = w)
Ne3(v, w) == Not3(Eq3(v, w))

(***************************************************************************)
(* The result of running a piece of validator code: the addResult calls it *)
(* made, in order; whether it ended by throwing; and the in-place sorts it *)
(* performed (eff), each naming the array it sorted.                       *)
(***************************************************************************)
NoR == [out |-> <<>>, threw |-> FALSE, eff |-> <<>>]
ThrowR == [out |-> <<>>, threw |-> TRUE, eff |-> <<>>]

\* r1; r2
Then(r1, r2) ==
    IF r1.threw THEN r1
    ELSE [out |-> r1.out \o r2.out, threw |-> r2.threw, eff |-> r1.eff \o r2.eff]

RECURSIVE ChainFrom(_, _)
ChainFrom(rs, i) ==
    IF i > Len(rs) THEN NoR ELSE Then(rs[i], ChainFrom(rs, i + 1))

\* the statements rs[1]; rs[2]; ... (also the iterations of a loop)
Chain(rs) == ChainFrom(rs, 1)

\* if (c) a else b
If3(c, a, b) == CASE c = "T" -> a [] c = "F" -> b [] OTHER -> ThrowR
When3(c, a) == If3(c, a, NoR)

(***************************************************************************)
(* Template strings are sequences of tokens; a value spliced into one is   *)
(* converted as String(v) would.                                           *)
(***************************************************************************)
ThrownTok == "<TypeError>"

Digit(d) ==
    CASE d = 0 -> "0" [] d = 1 -> "1" [] d = 2 -> "2" [] d = 3 -> "3" [] d = 4 -> "4"
      [] d = 5 -> "5" [] d = 6 -> "6" [] d = 7 -> "7" [] d = 8 -> "8" [] d = 9 -> "9"

RECURSIVE NumToks(_)
NumToks(n) == IF n < 10 THEN <<Digit(n)>> ELSE NumToks(n \div 10) \o <<Digit(n % 10)>>

\* `${v}`
ToS(v) ==
    CASE v.k = "str" -> <<v.s>>
      [] v.k = "undef" -> <<"undefined">>
      [] v.k = "null" -> <<"null">>
      [] v.k = "num" -> NumToks(v.n)
      [] v.k = "bool" -> IF v.b THEN <<"true">> ELSE <<"false">>
      [] v.k = "thrown" -> <<ThrownTok>>
      [] v.k = "obj" -> <<"[object Object]">>
      [] v.k = "arr" -> <<"[array]">>

\* a string value of the issue record (suggestion may also be null)
Text(toks) == [k |-> "text", t |-> toks]

\* addResult(level, message, location, suggestion): one call, as a validator makes it
Emit(level, message, location, suggestion) ==
    IF SeqIncludes(message, ThrownTok) \/ SeqIncludes(location, ThrownTok)
       \/ (suggestion.k = "text" /\ SeqIncludes(suggestion.t, ThrownTok))
    THEN ThrowR
    ELSE [out |-> <<[level |-> level, message |-> message, location |-> location,
                     suggestion |-> suggestion]>>,
          threw |-> FALSE, eff |-> <<>>]

(***************************************************************************)
(* Strings whose characters the code inspects. Chars gives the characters  *)
(* of each such string of the model's inputs.                              *)
(***************************************************************************)
\*CHARS-BEGIN
CharStrings ==
    {"",
     "#/components/parameters/Pet",
     "#/components/schemas/Booking",
     "#/components/schemas/ErrorResponse",
     "#/components/schemas/Ghost",
     "#/components/schemas/Other",
     "#/components/schemas/Owner",
     "#/components/schemas/Pet",
     "#/components/schemas/Walked",
     "$ref",
     "/bookings",
     "/items",
     "/items/{itemId}",
     "/orders",
     "/pets",
     "/pets/{petId}",
     "0.0.0.0",
     "0.2",
     "0.7",
     "1.0.0",
     "1024",
     "2.0",
     "200",
     "201",
     "3.0.0",
     "3.0.3",
     "3.1.0",
     "3000",
     "400",
     "404",
     "5",
     "500",
     "8080",
     "8192",
     "AB",
     "Audit",
     "Booking",
     "Booking created successfully",
     "COLORIZE",
     "CORS_ENABLED",
     "Code",
     "CreatedAt",
     "Describes it well",
     "Describes it well.",
     "Email",
     "ErrorResponse",
     "FAIL_ON_ERROR",
     "Fix ",
     "GEMINI_API_KEY",
     "GEMINI_MAX_TOKENS",
     "GEMINI_MODEL",
     "GEMINI_TEMPERATURE",
     "Get a pet",
     "Ghost",
     "HOST",
     "Invalid request data",
     "Issue ",
     "Item",
     "Items",
     "MIN_SEVERITY",
     "OUTPUT_FORMAT",
     "Order",
     "Orders v2",
     "Other",
     "Owner",
     "PORT",
     "Pet",
     "Pets",
     "Short",
     "Short.",
     "Status",
     "Test",
     "Thing",
     "Ticket",
     "USERID",
     "UserID",
     "VALIDATION_STRATEGY",
     "VERBOSE",
     "Walked",
     "^[A-Z]+$",
     "^[a-z]+$",
     "a",
     "ai",
     "all",
     "allOf",
     "apiKey",
     "application/json",
     "array",
     "b",
     "bearer",
     "bearerAuth",
     "c",
     "cell",
     "children",
     "closed",
     "code",
     "colorize",
     "commonFields",
     "components",
     "content",
     "core",
     "corsEnabled",
     "createdAt",
     "created_at",
     "creates",
     "d",
     "date-time",
     "defaultStrategy",
     "delete",
     "describes it well",
     "describes it well.",
     "description",
     "descriptions",
     "e",
     "email",
     "enum",
     "error",
     "errorResponses",
     "errors",
     "example",
     "example.org",
     "failOnError",
     "false",
     "format",
     "gemini",
     "gemini-1.5-pro",
     "gemini-pro",
     "get",
     "grid",
     "host",
     "http",
     "httpMethods",
     "https://api.example.com",
     "id",
     "in",
     "info",
     "integer",
     "itemId",
     "items",
     "json",
     "k-123",
     "k-file",
     "label",
     "limit",
     "maxLength",
     "maxTokens",
     "message",
     "minLength",
     "minSeverity",
     "model",
     "name",
     "next",
     "object",
     "oneOf",
     "open",
     "openapi",
     "other",
     "other.yaml#/components/schemas/Owner",
     "output",
     "owner",
     "parameters",
     "parent",
     "patch",
     "path",
     "pathParameters",
     "paths",
     "pattern",
     "pending",
     "pet",
     "petId",
     "port",
     "post",
     "properties",
     "put",
     "query",
     "registry",
     "requestBody",
     "required",
     "responseSchemas",
     "responses",
     "schema",
     "schemas",
     "scheme",
     "security",
     "securitySchemes",
     "server",
     "servers",
     "short",
     "short.",
     "size",
     "status",
     "strict",
     "string",
     "summary",
     "tags",
     "team",
     "temperature",
     "title",
     "total",
     "true",
     "type",
     "u-1",
     "unknown",
     "url",
     "userID",
     "userId",
     "user_i_d",
     "user_id",
     "uuid",
     "v2",
     "validation",
     "verbose",
     "version",
     "versioning",
     "walkProperties",
     "walkSchema",
     "warning",
     "x",
     "x-internal",
     "x-owner"}

CharsCase(s) ==
    CASE s = "" -> <<>>
      [] s = "#/components/parameters/Pet" -> <<"#", "/", "c", "o", "m", "p", "o", "n", "e", "n", "t", "s", "/", "p", "a", "r", "a", "m", "e", "t", "e", "r", "s", "/", "P", "e", "t">>
      [] s = "#/components/schemas/Booking" -> <<"#", "/", "c", "o", "m", "p", "o", "n", "e", "n", "t", "s", "/", "s", "c", "h", "e", "m", "a", "s", "/", "B", "o", "o", "k", "i", "n", "g">>
      [] s = "#/components/schemas/ErrorResponse" -> <<"#", "/", "c", "o", "m", "p", "o", "n", "e", "n", "t", "s", "/", "s", "c", "h", "e", "m", "a", "s", "/", "E", "r", "r", "o", "r", "R", "e", "s", "p", "o", "n", "s", "e">>
      [] s = "#/components/schemas/Ghost" -> <<"#", "/", "c", "o", "m", "p", "o", "n", "e", "n", "t", "s", "/", "s", "c", "h", "e", "m", "a", "s", "/", "G", "h", "o", "s", "t">>
      [] s = "#/components/schemas/Other" -> <<"#", "/", "c", "o", "m", "p", "o", "n", "e", "n", "t", "s", "/", "s", "c", "h", "e", "m", "a", "s", "/", "O", "t", "h", "e", "r">>
      [] s = "#/components/schemas/Owner" -> <<"#", "/", "c", "o", "m", "p", "o", "n", "e", "n", "t", "s", "/", "s", "c", "h", "e", "m", "a", "s", "/", "O", "w", "n", "e", "r">>
      [] s = "#/components/schemas/Pet" -> <<"#", "/", "c", "o", "m", "p", "o", "n", "e", "n", "t", "s", "/", "s", "c", "h", "e", "m", "a", "s", "/", "P", "e", "t">>
      [] s = "#/components/schemas/Walked" -> <<"#", "/", "c", "o", "m", "p", "o", "n", "e", "n", "t", "s", "/", "s", "c", "h", "e", "m", "a", "s", "/", "W", "a", "l", "k", "e", "d">>
      [] s = "$ref" -> <<"$", "r", "e", "f">>
      [] s = "/bookings" -> <<"/", "b", "o", "o", "k", "i", "n", "g", "s">>
      [] s = "/items" -> <<"/", "i", "t", "e", "m", "s">>
      [] s = "/items/{itemId}" -> <<"/", "i", "t", "e", "m", "s", "/", "{", "i", "t", "e", "m", "I", "d", "}">>
      [] s = "/orders" -> <<"/", "o", "r", "d", "e", "r", "s">>
      [] s = "/pets" -> <<"/", "p", "e", "t", "s">>
      [] s = "/pets/{petId}" -> <<"/", "p", "e", "t", "s", "/", "{", "p", "e", "t", "I", "d", "}">>
      [] s = "0.0.0.0" -> <<"0", ".", "0", ".", "0", ".", "0">>
      [] s = "0.2" -> <<"0", ".", "2">>
      [] s = "0.7" -> <<"0", ".", "7">>
      [] s = "1.0.0" -> <<"1", ".", "0", ".", "0">>
      [] s = "1024" -> <<"1", "0", "2", "4">>
      [] s = "2.0" -> <<"2", ".", "0">>
      [] s = "200" -> <<"2", "0", "0">>
      [] s = "201" -> <<"2", "0", "1">>
      [] s = "3.0.0" -> <<"3", ".", "0", ".", "0">>
      [] s = "3.0.3" -> <<"3", ".", "0", ".", "3">>
      [] s = "3.1.0" -> <<"3", ".", "1", ".", "0">>
      [] s = "3000" -> <<"3", "0", "0", "0">>
      [] s = "400" -> <<"4", "0", "0">>
      [] s = "404" -> <<"4", "0", "4">>
      [] s = "5" -> <<"5">>
      [] s = "500" -> <<"5", "0", "0">>
      [] s = "8080" -> <<"8", "0", "8", "0">>
      [] s = "8192" -> <<"8", "1", "9", "2">>
      [] s = "AB" -> <<"A", "B">>
      [] s = "Audit" -> <<"A", "u", "d", "i", "t">>
      [] s = "Booking" -> <<"B", "o", "o", "k", "i", "n", "g">>
      [] s = "Booking created successfully" -> <<"B", "o", "o", "k", "i", "n", "g", " ", "c", "r", "e", "a", "t", "e", "d", " ", "s", "u", "c", "c", "e", "s", "s", "f", "u", "l", "l", "y">>
      [] s = "COLORIZE" -> <<"C", "O", "L", "O", "R", "I", "Z", "E">>
      [] s = "CORS_ENABLED" -> <<"C", "O", "R", "S", "_", "E", "N", "A", "B", "L", "E", "D">>
      [] s = "Code" -> <<"C", "o", "d", "e">>
      [] s = "CreatedAt" -> <<"C", "r", "e", "a", "t", "e", "d", "A", "t">>
      [] s = "Describes it well" -> <<"D", "e", "s", "c", "r", "i", "b", "e", "s", " ", "i", "t", " ", "w", "e", "l", "l">>
      [] s = "Describes it well." -> <<"D", "e", "s", "c", "r", "i", "b", "e", "s", " ", "i", "t", " ", "w", "e", "l", "l", ".">>
      [] s = "Email" -> <<"E", "m", "a", "i", "l">>
      [] s = "ErrorResponse" -> <<"E", "r", "r", "o", "r", "R", "e", "s", "p", "o", "n", "s", "e">>
      [] s = "FAIL_ON_ERROR" -> <<"F", "A", "I", "L", "_", "O", "N", "_", "E", "R", "R", "O", "R">>
      [] s = "Fix " -> <<"F", "i", "x", " ">>
      [] s = "GEMINI_API_KEY" -> <<"G", "E", "M", "I", "N", "I", "_", "A", "P", "I", "_", "K", "E", "Y">>
      [] s = "GEMINI_MAX_TOKENS" -> <<"G", "E", "M", "I", "N", "I", "_", "M", "A", "X", "_", "T", "O", "K", "E", "N", "S">>
      [] s = "GEMINI_MODEL" -> <<"G", "E", "M", "I", "N", "I", "_", "M", "O", "D", "E", "L">>
      [] s = "GEMINI_TEMPERATURE" -> <<"G", "E", "M", "I", "N", "I", "_", "T", "E", "M", "P", "E", "R", "A", "T", "U", "R", "E">>
      [] s = "Get a pet" -> <<"G", "e", "t", " ", "a", " ", "p", "e", "t">>
      [] s = "Ghost" -> <<"G", "h", "o", "s", "t">>
      [] s = "HOST" -> <<"H", "O", "S", "T">>
      [] s = "Invalid request data" -> <<"I", "n", "v", "a", "l", "i", "d", " ", "r", "e", "q", "u", "e", "s", "t", " ", "d", "a", "t", "a">>
      [] s = "Issue " -> <<"I", "s", "s", "u", "e", " ">>
      [] s = "Item" -> <<"I", "t", "e", "m">>
      [] s = "Items" -> <<"I", "t", "e", "m", "s">>
      [] s = "MIN_SEVERITY" -> <<"M", "I", "N", "_", "S", "E", "V", "E", "R", "I", "T", "Y">>
      [] s = "OUTPUT_FORMAT" -> <<"O", "U", "T", "P", "U", "T", "_", "F", "O", "R", "M", "A", "T">>
      [] s = "Order" -> <<"O", "r", "d", "e", "r">>
      [] s = "Orders v2" -> <<"O", "r", "d", "e", "r", "s", " ", "v", "2">>
      [] s = "Other" -> <<"O", "t", "h", "e", "r">>
      [] s = "Owner" -> <<"O", "w", "n", "e", "r">>
      [] s = "PORT" -> <<"P", "O", "R", "T">>
      [] s = "Pet" -> <<"P", "e", "t">>
      [] s = "Pets" -> <<"P", "e", "t", "s">>
      [] s = "Short" -> <<"S", "h", "o", "r", "t">>
      [] s = "Short." -> <<"S", "h", "o", "r", "t", ".">>
      [] s = "Status" -> <<"S", "t", "a", "t", "u", "s">>
      [] s = "Test" -> <<"T", "e", "s", "t">>
      [] s = "Thing" -> <<"T", "h", "i", "n", "g">>
      [] s = "Ticket" -> <<"T", "i", "c", "k", "e", "t">>
      [] s = "USERID" -> <<"U", "S", "E", "R", "I", "D">>
      [] s = "UserID" -> <<"U", "s", "e", "r", "I", "D">>
      [] s = "VALIDATION_STRATEGY" -> <<"V", "A", "L", "I", "D", "A", "T", "I", "O", "N", "_", "S", "T", "R", "A", "T", "E", "G", "Y">>
      [] s = "VERBOSE" -> <<"V", "E", "R", "B", "O", "S", "E">>
      [] s = "Walked" -> <<"W", "a", "l", "k", "e", "d">>
      [] s = "^[A-Z]+$" -> <<"^", "[", "A", "-", "Z", "]", "+", "$">>
      [] s = "^[a-z]+$" -> <<"^", "[", "a", "-", "z", "]", "+", "$">>
      [] s = "a" -> <<"a">>
      [] s = "ai" -> <<"a", "i">>
      [] s = "all" -> <<"a", "l", "l">>
      [] s = "allOf" -> <<"a", "l", "l", "O", "f">>
      [] s = "apiKey" -> <<"a", "p", "i", "K", "e", "y">>
      [] s = "application/json" -> <<"a", "p", "p", "l", "i", "c", "a", "t", "i", "o", "n", "/", "j", "s", "o", "n">>
      [] s = "array" -> <<"a", "r", "r", "a", "y">>
      [] s = "b" -> <<"b">>
      [] s = "bearer" -> <<"b", "e", "a", "r", "e", "r">>
      [] s = "bearerAuth" -> <<"b", "e", "a", "r", "e", "r", "A", "u", "t", "h">>
      [] s = "c" -> <<"c">>
      [] s = "cell" -> <<"c", "e", "l", "l">>
      [] s = "children" -> <<"c", "h", "i", "l", "d", "r", "e", "n">>
      [] s = "closed" -> <<"c", "l", "o", "s", "e", "d">>
      [] s = "code" -> <<"c", "o", "d", "e">>
      [] s = "colorize" -> <<"c", "o", "l", "o", "r", "i", "z", "e">>
      [] s = "commonFields" -> <<"c", "o", "m", "m", "o", "n", "F", "i", "e", "l", "d", "s">>
      [] s = "components" -> <<"c", "o", "m", "p", "o", "n", "e", "n", "t", "s">>
      [] s = "content" -> <<"c", "o", "n", "t", "e", "n", "t">>
      [] s = "core" -> <<"c", "o", "r", "e">>
      [] s = "corsEnabled" -> <<"c", "o", "r", "s", "E", "n", "a", "b", "l", "e", "d">>
      [] s = "createdAt" -> <<"c", "r", "e", "a", "t", "e", "d", "A", "t">>
      [] s = "created_at" -> <<"c", "r", "e", "a", "t", "e", "d", "_", "a", "t">>
      [] s = "creates" -> <<"c", "r", "e", "a", "t", "e", "s">>
      [] s = "d" -> <<"d">>
      [] s = "date-time" -> <<"d", "a", "t", "e", "-", "t", "i", "m", "e">>
      [] s = "defaultStrategy" -> <<"d", "e", "f", "a", "u", "l", "t", "S", "t", "r", "a", "t", "e", "g", "y">>
      [] s = "delete" -> <<"d", "e", "l", "e", "t", "e">>
      [] s = "describes it well" -> <<"d", "e", "s", "c", "r", "i", "b", "e", "s", " ", "i", "t", " ", "w", "e", "l", "l">>
      [] s = "describes it well." -> <<"d", "e", "s", "c", "r", "i", "b", "e", "s", " ", "i", "t", " ", "w", "e", "l", "l", ".">>
      [] s = "description" -> <<"d", "e", "s", "c", "r", "i", "p", "t", "i", "o", "n">>
      [] s = "descriptions" -> <<"d", "e", "s", "c", "r", "i", "p", "t", "i", "o", "n", "s">>
      [] s = "e" -> <<"e">>
      [] s = "email" -> <<"e", "m", "a", "i", "l">>
      [] s = "enum" -> <<"e", "n", "u", "m">>
      [] s = "error" -> <<"e", "r", "r", "o", "r">>
      [] s = "errorResponses" -> <<"e", "r", "r", "o", "r", "R", "e", "s", "p", "o", "n", "s", "e", "s">>
      [] s = "errors" -> <<"e", "r", "r", "o", "r", "s">>
      [] s = "example" -> <<"e", "x", "a", "m", "p", "l", "e">>
      [] s = "example.org" -> <<"e", "x", "a", "m", "p", "l", "e", ".", "o", "r", "g">>
      [] s = "failOnError" -> <<"f", "a", "i", "l", "O", "n", "E", "r", "r", "o", "r">>
      [] s = "false" -> <<"f", "a", "l", "s", "e">>
      [] s = "format" -> <<"f", "o", "r", "m", "a", "t">>
      [] s = "gemini" -> <<"g", "e", "m", "i", "n", "i">>
      [] s = "gemini-1.5-pro" -> <<"g", "e", "m", "i", "n", "i", "-", "1", ".", "5", "-", "p", "r", "o">>
      [] s = "gemini-pro" -> <<"g", "e", "m", "i", "n", "i", "-", "p", "r", "o">>
      [] s = "get" -> <<"g", "e", "t">>
      [] s = "grid" -> <<"g", "r", "i", "d">>
      [] s = "host" -> <<"h", "o", "s", "t">>
      [] s = "http" -> <<"h", "t", "t", "p">>
      [] s = "httpMethods" -> <<"h", "t", "t", "p", "M", "e", "t", "h", "o", "d", "s">>
      [] s = "https://api.example.com" -> <<"h", "t", "t", "p", "s", ":", "/", "/", "a", "p", "i", ".", "e", "x", "a", "m", "p", "l", "e", ".", "c", "o", "m">>
      [] s = "id" -> <<"i", "d">>
      [] s = "in" -> <<"i", "n">>
      [] s = "info" -> <<"i", "n", "f", "o">>
      [] s = "integer" -> <<"i", "n", "t", "e", "g", "e", "r">>
      [] s = "itemId" -> <<"i", "t", "e", "m", "I", "d">>
      [] s = "items" -> <<"i", "t", "e", "m", "s">>
      [] s = "json" -> <<"j", "s", "o", "n">>
      [] s = "k-123" -> <<"k", "-", "1", "2", "3">>
      [] s = "k-file" -> <<"k", "-", "f", "i", "l", "e">>
      [] s = "label" -> <<"l", "a", "b", "e", "l">>
      [] s = "limit" -> <<"l", "i", "m", "i", "t">>
      [] s = "maxLength" -> <<"m", "a", "x", "L", "e", "n", "g", "t", "h">>
      [] s = "maxTokens" -> <<"m", "a", "x", "T", "o", "k", "e", "n", "s">>
      [] s = "message" -> <<"m", "e", "s", "s", "a", "g", "e">>
      [] s = "minLength" -> <<"m", "i", "n", "L", "e", "n", "g", "t", "h">>
      [] s = "minSeverity" -> <<"m", "i", "n", "S", "e", "v", "e", "r", "i", "t", "y">>
      [] s = "model" -> <<"m", "o", "d", "e", "l">>
      [] s = "name" -> <<"n", "a", "m", "e">>
      [] s = "next" -> <<"n", "e", "x", "t">>
      [] s = "object" -> <<"o", "b", "j", "e", "c", "t">>
      [] s = "oneOf" -> <<"o", "n", "e", "O", "f">>
      [] s = "open" -> <<"o", "p", "e", "n">>
      [] s = "openapi" -> <<"o", "p", "e", "n", "a", "p", "i">>
      [] s = "other" -> <<"o", "t", "h", "e", "r">>
      [] s = "other.yaml#/components/schemas/Owner" -> <<"o", "t", "h", "e", "r", ".", "y", "a", "m", "l", "#", "/", "c", "o", "m", "p", "o", "n", "e", "n", "t", "s", "/", "s", "c", "h", "e", "m", "a", "s", "/", "O", "w", "n", "e", "r">>
      [] s = "output" -> <<"o", "u", "t", "p", "u", "t">>
      [] s = "owner" -> <<"o", "w", "n", "e", "r">>
      [] s = "parameters" -> <<"p", "a", "r", "a", "m", "e", "t", "e", "r", "s">>
      [] s = "parent" -> <<"p", "a", "r", "e", "n", "t">>
      [] s = "patch" -> <<"p", "a", "t", "c", "h">>
      [] s = "path" -> <<"p", "a", "t", "h">>
      [] s = "pathParameters" -> <<"p", "a", "t", "h", "P", "a", "r", "a", "m", "e", "t", "e", "r", "s">>
      [] s = "paths" -> <<"p", "a", "t", "h", "s">>
      [] s = "pattern" -> <<"p", "a", "t", "t", "e", "r", "n">>
      [] s = "pending" -> <<"p", "e", "n", "d", "i", "n", "g">>
      [] s = "pet" -> <<"p", "e", "t">>
      [] s = "petId" -> <<"p", "e", "t", "I", "d">>
      [] s = "port" -> <<"p", "o", "r", "t">>
      [] s = "post" -> <<"p", "o", "s", "t">>
      [] s = "properties" -> <<"p", "r", "o", "p", "e", "r", "t", "i", "e", "s">>
      [] s = "put" -> <<"p", "u", "t">>
      [] s = "query" -> <<"q", "u", "e", "r", "y">>
      [] s = "registry" -> <<"r", "e", "g", "i", "s", "t", "r", "y">>
      [] s = "requestBody" -> <<"r", "e", "q", "u", "e", "s", "t", "B", "o", "d", "y">>
      [] s = "required" -> <<"r", "e", "q", "u", "i", "r", "e", "d">>
      [] s = "responseSchemas" -> <<"r", "e", "s", "p", "o", "n", "s", "e", "S", "c", "h", "e", "m", "a", "s">>
      [] s = "responses" -> <<"r", "e", "s", "p", "o", "n", "s", "e", "s">>
      [] s = "schema" -> <<"s", "c", "h", "e", "m", "a">>
      [] s = "schemas" -> <<"s", "c", "h", "e", "m", "a", "s">>
      [] s = "scheme" -> <<"s", "c", "h", "e", "m", "e">>
      [] s = "security" -> <<"s", "e", "c", "u", "r", "i", "t", "y">>
      [] s = "securitySchemes" -> <<"s", "e", "c", "u", "r", "i", "t", "y", "S", "c", "h", "e", "m", "e", "s">>
      [] s = "server" -> <<"s", "e", "r", "v", "e", "r">>
      [] s = "servers" -> <<"s", "e", "r", "v", "e", "r", "s">>
      [] s = "short" -> <<"s", "h", "o", "r", "t">>
      [] s = "short." -> <<"s", "h", "o", "r", "t", ".">>
      [] s = "size" -> <<"s", "i", "z", "e">>
      [] s = "status" -> <<"s", "t", "a", "t", "u", "s">>
      [] s = "strict" -> <<"s", "t", "r", "i", "c", "t">>
      [] s = "string" -> <<"s", "t", "r", "i", "n", "g">>
      [] s = "summary" -> <<"s", "u", "m", "m", "a", "r", "y">>
      [] s = "tags" -> <<"t", "a", "g", "s">>
      [] s = "team" -> <<"t", "e", "a", "m">>
      [] s = "temperature" -> <<"t", "e", "m", "p", "e", "r", "a", "t", "u", "r", "e">>
      [] s = "title" -> <<"t", "i", "t", "l", "e">>
      [] s = "total" -> <<"t", "o", "t", "a", "l">>
      [] s = "true" -> <<"t", "r", "u", "e">>
      [] s = "type" -> <<"t", "y", "p", "e">>
      [] s = "u-1" -> <<"u", "-", "1">>
      [] s = "unknown" -> <<"u", "n", "k", "n", "o", "w", "n">>
      [] s = "url" -> <<"u", "r", "l">>
      [] s = "userID" -> <<"u", "s", "e", "r", "I", "D">>
      [] s = "userId" -> <<"u", "s", "e", "r", "I", "d">>
      [] s = "user_i_d" -> <<"u", "s", "e", "r", "_", "i", "_", "d">>
      [] s = "user_id" -> <<"u", "s", "e", "r", "_", "i", "d">>
      [] s = "uuid" -> <<"u", "u", "i", "d">>
      [] s = "v2" -> <<"v", "2">>
      [] s = "validation" -> <<"v", "a", "l", "i", "d", "a", "t", "i", "o", "n">>
      [] s = "verbose" -> <<"v", "e", "r", "b", "o", "s", "e">>
      [] s = "version" -> <<"v", "e", "r", "s", "i", "o", "n">>
      [] s = "versioning" -> <<"v", "e", "r", "s", "i", "o", "n", "i", "n", "g">>
      [] s = "walkProperties" -> <<"w", "a", "l", "k", "P", "r", "o", "p", "e", "r", "t", "i", "e", "s">>
      [] s = "walkSchema" -> <<"w", "a", "l", "k", "S", "c", "h", "e", "m", "a">>
      [] s = "warning" -> <<"w", "a", "r", "n", "i", "n", "g">>
      [] s = "x" -> <<"x">>
      [] s = "x-internal" -> <<"x", "-", "i", "n", "t", "e", "r", "n", "a", "l">>
      [] s = "x-owner" -> <<"x", "-", "o", "w", "n", "e", "r">>

CharsTable == [s \in CharStrings |-> CharsCase(s)]

Chars(s) == CharsTable[s]
\*CHARS-END

UpperChars == {"A", "B", "C", "D", "E", "F", "G", "H", "I", "J", "K", "L", "M",
               "N", "O", "P", "Q", "R", "S", "T", "U", "V", "W", "X", "Y", "Z"}
DigitChars == {"0", "1", "2", "3", "4", "5", "6", "7", "8", "9"}

Ascii ==
    <<" ", "!", "\"", "#", "$", "%", "&", "'", "(", ")", "*", "+", ",", "-", ".", "/",
      "0", "1", "2", "3", "4", "5", "6", "7", "8", "9", ":", ";", "<", "=", ">", "?",
      "@", "A", "B", "C", "D", "E", "F", "G", "H", "I", "J", "K", "L", "M", "N", "O",
      "P", "Q", "R", "S", "T", "U", "V", "W", "X", "Y", "Z", "[", "backslash", "]", "^", "_",
      "backtick", "a", "b", "c", "d", "e", "f", "g", "h", "i", "j", "k", "l", "m", "n", "o",
      "p", "q", "r", "s", "t", "u", "v", "w", "x", "y", "z", "{", "|", "}", "~">>

AsciiSet == {Ascii[i] : i \in 1..Len(Ascii)}
CodeTable == [c \in AsciiSet |-> CHOOSE i \in 1..Len(Ascii) : Ascii[i] = c]
Code(c) == CodeTable[c]

\* the string with the characters cs
FromChars(cs) == CHOOSE s \in CharStrings : Chars(s) = cs

\* chars.startsWith(prefix)
HasPrefix(cs, prefix) ==
    Len(cs) >= Len(prefix) /\ SubSeq(cs, 1, Len(prefix)) = prefix

\* String(v) as characters, for the values a regular expression is tested on
CharsOfValue(v) ==
    CASE v.k = "str" -> Chars(v.s)
      [] v.k = "num" -> NumToks(v.n)
      [] v.k = "bool" -> IF v.b THEN <<"t", "r", "u", "e">> ELSE <<"f", "a", "l", "s", "e">>
      [] v.k = "undef" -> <<"u", "n", "d", "e", "f", "i", "n", "e", "d">>
      [] v.k = "null" -> <<"n", "u", "l", "l">>

\* /^[A-Z]/.test(v)
StartsUpper(v) ==
    LET cs == CharsOfValue(v) IN Len(cs) > 0 /\ cs[1] \in UpperChars

\* /[.!?:]$/.test(v)
EndsPunct(v) ==
    LET cs == CharsOfValue(v) IN Len(cs) > 0 /\ cs[Len(cs)] \in {".", "!", "?", ":"}

\* v.length < n: the length of a string; undefined (so never < n) for a number or boolean
LengthBelow(v, n) == v.k = "str" /\ Len(Chars(v.s)) < n

\* method.toUpperCase()
Upper(s) ==
    CASE s = "get" -> "GET" [] s = "post" -> "POST" [] s = "put" -> "PUT"
      [] s = "patch" -> "PATCH" [] s = "delete" -> "DELETE" [] s = "head" -> "HEAD"
      [] s = "options" -> "OPTIONS" [] s = "parameters" -> "PARAMETERS"
      [] s = "summary" -> "SUMMARY" [] s = "servers" -> "SERVERS"
      [] s = "x-internal" -> "X-INTERNAL" [] s = "x-owner" -> "X-OWNER"

\* Object.entries(v)[i - 1], for v not undefined or null
KeyAt(v, i) == Entries(v)[i][1]
ValueAt(v, i) == Entries(v)[i][2]

\* Object.keys(v).length, for v not undefined or null
KeyCount(v) == Len(Entries(v))

\* for (const [key, value] of Object.entries(v)) ...: rs are the runs of the
\* loop body on the entries, in order; a TypeError when v is undefined or null
EachEntry(v, rs) ==
    IF v.k \in {"undef", "null", "thrown"} THEN ThrowR ELSE Chain(rs)

\* for (let i = 0; i < v.length; i++) ...: v.length is undefined, and the
\* loop empty, unless v is an array
EachIndex(v, rs) ==
    IF v.k \in {"undef", "null", "thrown"} THEN ThrowR
    ELSE IF v.k = "arr" THEN Chain(rs)
    ELSE NoR

\* a walker's visits handed to its callback in order (rs), then the walker's
\* own TypeError if it ended with one
EachVisit(w, rs) ==
    Then(Chain(rs), IF w.threw THEN ThrowR ELSE NoR)

EmptyObj == Obj(<<>>)
\* apiSpec.paths || {}
PathsOf(spec) == OrElse(Get(spec, "paths"), EmptyObj)
\* apiSpec.components?.schemas
SchemasOf(spec) == GetOpt(Get(spec, "components"), "schemas")
\* body.content?.['application/json']?.schema
JsonSchemaOf(body) == GetOpt(GetOpt(Get(body, "content"), "application/json"), "schema")

\* v.length: of an array or a string, otherwise undefined
LengthOf(v) ==
    CASE v.k \in {"undef", "null", "thrown"} -> Thrown
      [] v.k = "arr" -> Num(Len(v.a))
      [] v.k = "str" -> Num(Len(Chars(v.s)))
      [] OTHER -> Lookup(IF v.k = "obj" THEN v.o ELSE <<>>, "length", 1)

\* parseInt(s): the number its leading digits spell, or NaN without any
RECURSIVE DigitsValue(_, _, _)
DigitsValue(cs, i, acc) ==
    IF i > Len(cs) \/ cs[i] \notin DigitChars THEN acc
    ELSE DigitsValue(cs, i + 1, 10 * acc + (Code(cs[i]) - Code("0")))

parseInt(s) ==
    LET cs == Chars(s)
    IN  IF Len(cs) = 0 \/ cs[1] \notin DigitChars THEN [nan |-> TRUE, n |-> 0]
        ELSE [nan |-> FALSE, n |-> DigitsValue(cs, 1, 0)]

\* lo <= x && x < hi, false of NaN
InRange(x, lo, hi) == ~x.nan /\ lo <= x.n /\ x.n < hi
\* x < lo || x >= hi, false of NaN
OutOfRange(x, lo, hi) == ~x.nan /\ (x.n < lo \/ x.n >= hi)
\* x === n
IsCode(x, n) == ~x.nan /\ x.n = n

(***************************************************************************)
(* Character order, sorting and JSON.stringify                             *)
(***************************************************************************)
\* c.toLowerCase() of one character
LowerChar(c) ==
    IF c \in UpperChars THEN Ascii[Code(c) + (Code("a") - Code("A"))] ELSE c
LowerChars(cs) == [i \in 1..Len(cs) |-> LowerChar(cs[i])]

\* a < b in code-unit order
RECURSIVE CharsLess(_, _, _)
CharsLess(a, b, i) ==
    IF i > Len(b) THEN FALSE
    ELSE IF i > Len(a) THEN TRUE
    ELSE IF a[i] = b[i] THEN CharsLess(a, b, i + 1)
    ELSE Code(a[i]) < Code(b[i])

ValueLess(v, w) == CharsLess(CharsOfValue(v), CharsOfValue(w), 1)

\* x put into the sorted sequence seq after the elements that are not greater
RECURSIVE InsertSorted(_, _, _)
InsertSorted(seq, x, i) ==
    IF i > Len(seq) THEN Append(seq, x)
    ELSE IF ValueLess(x, seq[i])
    THEN SubSeq(seq, 1, i - 1) \o <<x>> \o SubSeq(seq, i, Len(seq))
    ELSE InsertSorted(seq, x, i + 1)

RECURSIVE SortFrom(_, _, _)
SortFrom(seq, i, acc) ==
    IF i > Len(seq) THEN acc ELSE SortFrom(seq, i + 1, InsertSorted(acc, seq[i], 1))

\* array.sort(): the elements ordered by their string forms, equal ones kept in order
SortValues(seq) == SortFrom(seq, 1, <<>>)

RECURSIVE JoinFrom(_, _, _)
JoinFrom(parts, sep, i) ==
    IF i > Len(parts) THEN <<>>
    ELSE IF i = Len(parts) THEN parts[i]
    ELSE parts[i] \o sep \o JoinFrom(parts, sep, i + 1)

\* parts.join(sep), each part and sep a token sequence
Join(parts, sep) == JoinFrom(parts, sep, 1)

\* the entries of an object that JSON.stringify writes: those not undefined
RECURSIVE Defined(_, _)
Defined(entries, i) ==
    IF i > Len(entries) THEN <<>>
    ELSE IF entries[i][2].k = "undef" THEN Defined(entries, i + 1)
    ELSE <<entries[i]>> \o Defined(entries, i + 1)

RECURSIVE Stringify(_)
Stringify(v) ==
    CASE v.k = "str" -> <<"\"", v.s, "\"">>
      [] v.k = "num" -> NumToks(v.n)
      [] v.k = "bool" -> IF v.b THEN <<"true">> ELSE <<"false">>
      [] v.k \in {"null", "undef"} -> <<"null">>
      [] v.k = "arr" ->
            <<"[">> \o Join([i \in 1..Len(v.a) |-> Stringify(v.a[i])], <<",">>) \o <<"]">>
      [] v.k = "obj" ->
            LET es == Defined(v.o, 1)
            IN  <<"{">>
                \o Join([i \in 1..Len(es) |->
                            <<"\"", es[i][1], "\":">> \o Stringify(es[i][2])], <<",">>)
                \o <<"}">>

(***************************************************************************)
(* Common Field Registry                                                   *)
(***************************************************************************)
RECURSIVE MapLookup(_, _, _)
MapLookup(map, key, i) ==
    IF i > Len(map) THEN Undef
    ELSE IF map[i][1] = key THEN Str(map[i][2])
    ELSE MapLookup(map, key, i + 1)

\* map[key]
MapGet(map, key) == MapLookup(map, key, 1)

\* map[key] = name
MapSet(map, key, name) ==
    IF \E i \in 1..Len(map) : map[i][1] = key
    THEN [i \in 1..Len(map) |-> IF map[i][1] = key THEN <<key, name>> ELSE map[i]]
    ELSE Append(map, <<key, name>>)

\* schemaName.replace(/([A-Z])/g, '_$1')
RECURSIVE UnderscoreCapitals(_, _)
UnderscoreCapitals(cs, i) ==
    IF i > Len(cs) THEN <<>>
    ELSE (IF cs[i] \in UpperChars THEN <<"_", cs[i]>> ELSE <<cs[i]>>)
         \o UnderscoreCapitals(cs, i + 1)

\* schemaName.replace(/([A-Z])/g, '_$1').toLowerCase().replace(/^_/, '')
SnakeCase(cs) ==
    LET u == LowerChars(UnderscoreCapitals(cs, 1))
    IN  IF Len(u) > 0 /\ u[1] = "_" THEN SubSeq(u, 2, Len(u)) ELSE u

\* schemaName.charAt(0).toLowerCase() + schemaName.slice(1)
CamelCase(cs) ==
    IF Len(cs) = 0 THEN <<>> ELSE <<LowerChar(cs[1])>> \o SubSeq(cs, 2, Len(cs))

\* one iteration of the loop over the schemas of common.yaml
RegisterSchema(reg, schemaName, schemaDef) ==
    LET name == Chars(schemaName)
        normalized == LowerChars(name)
        snakeCase == SnakeCase(name)
        camelCase == CamelCase(name)
        m1 == MapSet(reg.map, normalized, schemaName)
        m2 == IF snakeCase # normalized THEN MapSet(m1, snakeCase, schemaName) ELSE m1
        m3 == IF camelCase # name /\ camelCase # normalized
              THEN MapSet(m2, camelCase, schemaName) ELSE m2
    IN  [defs |-> Append(reg.defs, <<schemaName, schemaDef>>), map |-> m3]

RECURSIVE RegisterFrom(_, _, _)
RegisterFrom(reg, entries, i) ==
    IF i > Len(entries) THEN reg
    ELSE RegisterFrom(RegisterSchema(reg, entries[i][1], entries[i][2]), entries, i + 1)

EmptyRegistry == [defs |-> <<>>, map |-> <<>>]

\* The module's load of a parsed common.yaml: the definitions and the spelling
\* map; both stay empty when reading the parsed document throws.
LoadRegistry(commonSpec) ==
    LET schemas == OrElse(GetOpt(Get(commonSpec, "components"), "schemas"), EmptyObj)
    IN  IF schemas.k = "thrown" THEN EmptyRegistry
        ELSE RegisterFrom(EmptyRegistry, Entries(schemas), 1)

getFieldCount(defs) == Len(defs)

\* getField(fieldName): the definition registered under a spelling, or null
getField(defs, map, fieldName) ==
    IF Truthy(MapGet(map, LowerChars(Chars(fieldName))))
    THEN Lookup(defs, MapGet(map, LowerChars(Chars(fieldName))).s, 1)
    ELSE Null

\* A YAML file as loadYaml finds it: absent, not parsable, or holding a document.
MissingFile == [k |-> "missing"]
UnparsableFile == [k |-> "unparsable"]
YamlFile(document) == [k |-> "yaml", document |-> document]

\* loadYaml(filePath): the parsed document; when readFileSync or yaml.load
\* throws, the catch block logs and calls process.exit(1)
loadYaml(file) ==
    IF file.k \in {"missing", "unparsable"}
    THEN [exited |-> TRUE, value |-> Undef]
    ELSE [exited |-> FALSE, value |-> file.document]

\* The load of the registry module: loadYaml inside the try block, then the
\* loop over the schemas; process.exit inside loadYaml ends the process
\* before the catch block of the module can run.
loadCommonFields(file) ==
    IF loadYaml(file).exited
    THEN [process |-> "exited", defs |-> <<>>, map |-> <<>>]
    ELSE [process |-> "running",
          defs |-> LoadRegistry(loadYaml(file).value).defs,
          map |-> LoadRegistry(loadYaml(file).value).map]


(***************************************************************************)
(* Description Validator                                                   *)
(***************************************************************************)
MinDescriptionLength == 10

isValidDescription(desc) ==
    IF ~Truthy(desc) \/ desc.k # "str" THEN FALSE
    ELSE IF LengthBelow(desc, MinDescriptionLength) THEN FALSE
    ELSE IF ~StartsUpper(desc) THEN FALSE
    ELSE IF ~EndsPunct(desc) THEN FALSE
    ELSE TRUE

\* lines 113-129: the issues getSuggestion collects
SuggestionIssues(currentDesc) ==
    (IF ~StartsUpper(currentDesc) THEN <<"start with uppercase letter">> ELSE <<>>)
    \o (IF ~EndsPunct(currentDesc)
        THEN <<"end with proper punctuation (. ! ? or :)">> ELSE <<>>)
    \o (IF LengthBelow(currentDesc, MinDescriptionLength)
        THEN <<"be more descriptive (at least 10 characters)">> ELSE <<>>)

\* lines 131-135: the suggestion made of the issues collected, joined by ', '
SuggestionOf(currentDesc, issues) ==
    IF Len(issues) > 0
    THEN Text(<<"Description should ">>
              \o [i \in 1..(2 * Len(issues) - 1) |->
                     IF i % 2 = 1 THEN issues[(i + 1) \div 2] ELSE ", "]
              \o <<". Current: \"">> \o ToS(currentDesc) \o <<"\"">>)
    ELSE Null

getSuggestion(currentDesc, fieldName) ==
    IF ~Truthy(currentDesc)
    THEN Text(<<"Add a description for field '">> \o ToS(fieldName)
              \o <<"' explaining what it represents.">>)
    ELSE SuggestionOf(currentDesc, SuggestionIssues(currentDesc))

\* One visit of a walker: the callback's arguments, and at, the keys leading
\* from the walked schema to the property's schema.
Visit(propName, propSchema, propPath, at) ==
    [out |-> <<[propName |-> propName, propSchema |-> propSchema,
                propPath |-> propPath, at |-> at]>>,
     threw |-> FALSE, eff |-> <<>>]

\* lines 139-145: the callback on each property, then the walk of its schema
RECURSIVE walkProperties(_, _, _)
WalkEachProperty(properties, path, at) ==
    EachEntry(properties,
              [i \in 1..KeyCount(properties) |->
                  Then(Visit(KeyAt(properties, i), ValueAt(properties, i),
                             IF path # <<>>
                             THEN path \o <<".properties.", KeyAt(properties, i)>>
                             ELSE <<"properties.", KeyAt(properties, i)>>,
                             at \o <<"properties", KeyAt(properties, i)>>),
                       walkProperties(ValueAt(properties, i),
                                      IF path # <<>>
                                      THEN path \o <<".properties.", KeyAt(properties, i)>>
                                      ELSE <<"properties.", KeyAt(properties, i)>>,
                                      at \o <<"properties", KeyAt(properties, i)>>))])

\* a walker that also enters a $ref, as if it were a property
walkEnteringRefs(schema, path, at) ==
    IF ~Truthy(schema) \/ ~TypeofObject(schema) THEN NoR
    ELSE Chain(<<
           IF Truthy(Get(schema, "properties"))
           THEN WalkEachProperty(Get(schema, "properties"), path, at)
           ELSE NoR,
           IF Truthy(Get(schema, "items"))
           THEN walkProperties(Get(schema, "items"), path \o <<".items">>,
                               at \o <<"items">>)
           ELSE NoR,
           IF Truthy(Get(schema, "$ref"))
           THEN Visit("$ref", Get(schema, "$ref"), path \o <<".$ref">>, at \o <<"$ref">>)
           ELSE NoR
         >>)

walkProperties(schema, path, at) ==
    IF ~Truthy(schema) \/ ~TypeofObject(schema) THEN NoR
    ELSE Then(IF Truthy(Get(schema, "properties"))
              THEN WalkEachProperty(Get(schema, "properties"), path, at)
              ELSE NoR,
              IF Truthy(Get(schema, "items"))
              THEN walkProperties(Get(schema, "items"), path \o <<".items">>,
                                  at \o <<"items">>)
              ELSE NoR)

\* if (!description) addResult('error', ...) else if (!isValidDescription(description))
\* addResult('warning', ..., getSuggestion(description, fieldName)): the shape of
\* lines 170-178, 186-192, 210-216 and 228-234
DescCheck(description, fieldName, location, missing, missingSuggestion, improve) ==
    If3(Not3(T3(description)),
        Emit("error", missing, location, Text(missingSuggestion)),
        When3(Lift(~isValidDescription(description)),
              Emit("warning", improve, location, getSuggestion(description, fieldName))))

\* lines 166-179: one parameter of an operation
DescParameter(baseLocation, i, param) ==
    DescCheck(Get(param, "description"), Get(param, "name"),
              baseLocation \o <<".parameters[">> \o NumToks(i) \o <<"]">>,
              <<"Parameter '">> \o ToS(Get(param, "name")) \o <<"' is missing description.">>,
              <<"Add description for parameter '">> \o ToS(Get(param, "name")) \o <<"'.">>,
              <<"Parameter '">> \o ToS(Get(param, "name"))
                  \o <<"' description needs improvement.">>)

\* lines 184-193: walkProperties(reqBodySchema, callback), w the walk
DescRequestFields(baseLocation, w) ==
    EachVisit(w, [i \in 1..Len(w.out) |->
        DescCheck(Get(w.out[i].propSchema, "description"), Str(w.out[i].propName),
                  baseLocation \o <<".requestBody.">> \o w.out[i].propPath,
                  <<"Request body field '", w.out[i].propName, "' is missing description.">>,
                  <<"Add a description for field '", w.out[i].propName,
                    "' explaining its purpose.">>,
                  <<"Field '", w.out[i].propName, "' description needs improvement.">>)])

\* lines 208-217: walkProperties(respSchema, callback), w the walk
DescResponseFields(respLocation, w) ==
    EachVisit(w, [i \in 1..Len(w.out) |->
        DescCheck(Get(w.out[i].propSchema, "description"), Str(w.out[i].propName),
                  respLocation \o <<".">> \o w.out[i].propPath,
                  <<"Response field '", w.out[i].propName, "' is missing description.">>,
                  <<"Add a description for field '", w.out[i].propName,
                    "' explaining what it represents.">>,
                  <<"Field '", w.out[i].propName, "' description needs improvement.">>)])

\* lines 198-219: one response of an operation
DescResponse(baseLocation, statusCode, response) ==
    Then(When3(Not3(T3(Get(response, "description"))),
               Emit("warning",
                    <<"Response ", statusCode, " is missing description.">>,
                    baseLocation \o <<".responses.", statusCode>>,
                    Text(<<"Add a description explaining when this response occurs.">>))),
         When3(T3(JsonSchemaOf(response)),
               DescResponseFields(baseLocation \o <<".responses.", statusCode>>,
                                  walkProperties(JsonSchemaOf(response), <<>>, <<>>))))

\* lines 156-221: one entry of a path item
DescOperation(pathName, method, methodDef) ==
    IF ~TypeofObject(methodDef) THEN NoR
    ELSE
      LET baseLocation == <<pathName, ".", method>>
          parameters == Get(methodDef, "parameters")
          requestBody == Get(methodDef, "requestBody")
          responses == Get(methodDef, "responses")
      IN  Chain(<<
            When3(And3(Not3(T3(Get(methodDef, "description"))),
                       Not3(T3(Get(methodDef, "summary")))),
                  Emit("warning",
                       <<"Endpoint ", Upper(method), " ", pathName,
                         " is missing description or summary.">>,
                       baseLocation,
                       Text(<<"Add a description or summary explaining what this endpoint does.">>))),
            When3(T3(parameters),
                  EachIndex(parameters,
                            [i \in 1..KeyCount(parameters) |->
                                DescParameter(baseLocation, i - 1, ValueAt(parameters, i))])),
            When3(T3(requestBody),
                  When3(T3(JsonSchemaOf(requestBody)),
                        DescRequestFields(baseLocation,
                            walkProperties(JsonSchemaOf(requestBody), <<>>, <<>>)))),
            When3(T3(responses),
                  EachEntry(responses,
                            [i \in 1..KeyCount(responses) |->
                                DescResponse(baseLocation, KeyAt(responses, i),
                                             ValueAt(responses, i))]))
          >>)

\* lines 226-235: walkProperties(schema, callback), w the walk
DescSchemaProperties(schemaName, w) ==
    EachVisit(w, [i \in 1..Len(w.out) |->
        DescCheck(Get(w.out[i].propSchema, "description"), Str(w.out[i].propName),
                  <<"components.schemas.", schemaName, ".">> \o w.out[i].propPath,
                  <<"Schema '", schemaName, "' property '", w.out[i].propName,
                    "' is missing description.">>,
                  <<"Add description for property '", w.out[i].propName, "'.">>,
                  <<"Property '", schemaName, ".", w.out[i].propName,
                    "' description needs improvement.">>)])

\* lines 155-222: the entries of one path item
DescPathItem(pathName, pathDef) ==
    EachEntry(pathDef,
              [i \in 1..KeyCount(pathDef) |->
                  DescOperation(pathName, KeyAt(pathDef, i), ValueAt(pathDef, i))])

validateDescriptions(spec) ==
    Then(EachEntry(PathsOf(spec),
                   [i \in 1..KeyCount(PathsOf(spec)) |->
                       DescPathItem(KeyAt(PathsOf(spec), i), ValueAt(PathsOf(spec), i))]),
         When3(T3(SchemasOf(spec)),
               EachEntry(SchemasOf(spec),
                         [i \in 1..KeyCount(SchemasOf(spec)) |->
                             DescSchemaProperties(KeyAt(SchemasOf(spec), i),
                                 walkProperties(ValueAt(SchemasOf(spec), i), <<>>, <<>>))])))


(***************************************************************************)
(* Common Fields Validator                                                 *)
(***************************************************************************)
\* an in-place sort of an enum array: of the registry definition called name,
\* or of the schema found in the spec by following the keys at
SortedExpected == [target |-> "expected", name |-> "", at |-> <<>>]
SortedActual == [target |-> "actual", name |-> "", at |-> <<>>]
Effect(e) == [out |-> <<>>, threw |-> FALSE, eff |-> <<e>>]

\* issues.push({field, message})
Push(field, message) ==
    [out |-> <<[field |-> field, message |-> message]>>, threw |-> FALSE, eff |-> <<>>]

\* lines 181-192: both enum arrays are sorted in place, then compared as JSON
MatchEnum(actualSchema, expectedDef) ==
    LET expected == Get(expectedDef, "enum")
        actual == Get(actualSchema, "enum")
        actualOrEmpty == OrElse(actual, Arr(<<>>))
    IN  When3(T3(expected),
          IF expected.k # "arr" THEN ThrowR
          ELSE Then(Effect(SortedExpected),
                 IF actualOrEmpty.k # "arr" THEN ThrowR
                 ELSE Then(IF Truthy(actual) THEN Effect(SortedActual) ELSE NoR,
                        When3(Lift(Stringify(Arr(SortValues(expected.a)))
                                   # Stringify(Arr(SortValues(actualOrEmpty.a)))),
                              Push("enum", <<"Enum values mismatch">>)))))

\* One of the five scalar comparisons of validateFieldMatch (lines 136-179).
MatchField(actualSchema, expectedDef, field, message, got) ==
    When3(And3(T3(Get(expectedDef, field)),
               Ne3(Get(actualSchema, field), Get(expectedDef, field))),
          Push(field, message \o ToS(Get(expectedDef, field)) \o got))

validateFieldMatch(actualSchema, expectedDef, fullPath) ==
    LET OrNone(field) == ToS(OrElse(Get(actualSchema, field), Str("none")))
    IN  Chain(<<
          MatchField(actualSchema, expectedDef, "type", <<"Type mismatch: expected '">>,
                     <<"', got '">> \o ToS(Get(actualSchema, "type")) \o <<"'">>),
          MatchField(actualSchema, expectedDef, "format", <<"Format mismatch: expected '">>,
                     <<"', got '">> \o OrNone("format") \o <<"'">>),
          MatchField(actualSchema, expectedDef, "pattern", <<"Pattern mismatch: expected '">>,
                     <<"', got '">> \o OrNone("pattern") \o <<"'">>),
          MatchField(actualSchema, expectedDef, "minLength", <<"MinLength mismatch: expected ">>,
                     <<", got ">> \o OrNone("minLength")),
          MatchField(actualSchema, expectedDef, "maxLength", <<"MaxLength mismatch: expected ">>,
                     <<", got ">> \o OrNone("maxLength")),
          MatchEnum(actualSchema, expectedDef)
        >>)

\* schema.allOf.forEach(...): rs are the runs of the callback on the members,
\* in order; a TypeError unless the value is an array
EachMember(v, rs) ==
    IF v.k # "arr" THEN ThrowR ELSE Chain(rs)

\* lines 200-206: the callback on each property, then the walk of its schema
RECURSIVE walkSchema(_, _, _)
WalkSchemaProperties(properties, path, at) ==
    EachEntry(properties,
              [i \in 1..KeyCount(properties) |->
                  Then(Visit(KeyAt(properties, i), ValueAt(properties, i),
                             IF path # <<>> THEN path \o <<".", KeyAt(properties, i)>>
                             ELSE <<KeyAt(properties, i)>>,
                             at \o <<"properties", KeyAt(properties, i)>>),
                       walkSchema(ValueAt(properties, i),
                                  IF path # <<>> THEN path \o <<".", KeyAt(properties, i)>>
                                  ELSE <<KeyAt(properties, i)>>,
                                  at \o <<"properties", KeyAt(properties, i)>>))])

\* schema.allOf, schema.anyOf or schema.oneOf walked member by member:
\* lines 212-228
WalkMembers(members, keyword, opening, path, at) ==
    EachMember(members,
               [i \in 1..KeyCount(members) |->
                   walkSchema(ValueAt(members, i),
                              path \o <<opening>> \o NumToks(i - 1) \o <<"]">>,
                              at \o <<keyword, IndexKey(i - 1)>>)])

walkSchema(schema, path, at) ==
    IF ~Truthy(schema) \/ ~TypeofObject(schema) THEN NoR
    ELSE Chain(<<
           IF Truthy(Get(schema, "properties"))
           THEN WalkSchemaProperties(Get(schema, "properties"), path, at)
           ELSE NoR,
           IF Truthy(Get(schema, "items"))
           THEN walkSchema(Get(schema, "items"),
                           IF path # <<>> THEN path \o <<"[]">> ELSE <<"[]">>,
                           at \o <<"items">>)
           ELSE NoR,
           IF Truthy(Get(schema, "allOf"))
           THEN WalkMembers(Get(schema, "allOf"), "allOf", ".allOf[", path, at) ELSE NoR,
           IF Truthy(Get(schema, "anyOf"))
           THEN WalkMembers(Get(schema, "anyOf"), "anyOf", ".anyOf[", path, at) ELSE NoR,
           IF Truthy(Get(schema, "oneOf"))
           THEN WalkMembers(Get(schema, "oneOf"), "oneOf", ".oneOf[", path, at) ELSE NoR
         >>)

\* the sorts validateFieldMatch made, named by what they sorted
Located(effs, canonical, at) ==
    [i \in 1..Len(effs) |->
        IF effs[i].target = "expected"
        THEN [target |-> "registry", name |-> canonical, at |-> <<>>]
        ELSE [target |-> "spec", name |-> "", at |-> at]]

\* a definition as validateFieldMatch leaves it: its enum sorted
SortedEnum(def) ==
    IF def.k = "obj" /\ Get(def, "enum").k = "arr"
    THEN Obj([i \in 1..Len(def.o) |->
                IF def.o[i][1] = "enum" THEN <<"enum", Arr(SortValues(def.o[i][2].a))>>
                ELSE def.o[i]])
    ELSE def

\* A faulty reading, for comparison: expectedDef as it was before
\* validateFieldMatch sorted its enum.
DefinitionBeforeMatch(expectedDef, effs) == expectedDef

\* expectedDef as the callback reads it for the suggestion, after
\* validateFieldMatch returned: sorted if the match sorted its enum
DefinitionAfterMatch(expectedDef, effs) ==
    IF \E i \in 1..Len(effs) : effs[i].target = "registry"
    THEN SortedEnum(expectedDef) ELSE expectedDef

\* issues.map(i => i.message).join('; ') and JSON.stringify(expectedDef.example
\* || expectedDef), in the suggestion of lines 255-256, 279-280 and 304-305;
\* left is expectedDef as validateFieldMatch left it
StandardSuggestion(issues, left) ==
    Text(<<"Consider using standard definition: ">>
         \o Join([i \in 1..Len(issues) |-> issues[i].message], <<"; ">>)
         \o <<". Example: ">>
         \o Stringify(OrElse(Get(left, "example"), left)))

\* lines 249-257: what the callback does with the issues validateFieldMatch
\* returned (match); canonical is the registry's name of the field and at the
\* keys leading from the spec to the field's schema
ReportMatch(match, canonical, expectedDef, at, message, location) ==
    IF match.threw THEN [out |-> <<>>, threw |-> TRUE, eff |-> Located(match.eff, canonical, at)]
    ELSE Then([out |-> <<>>, threw |-> FALSE, eff |-> Located(match.eff, canonical, at)],
              When3(Lift(Len(match.out) > 0),
                    Emit("warning", message, location,
                         StandardSuggestion(match.out,
                             DefinitionAfterMatch(expectedDef,
                                                  Located(match.eff, canonical, at))))))

\* lines 246-258: canonical is commonFieldMap[normalizedName]
CommonFieldNamed(defs, canonical, v, root, message, location) ==
    IF ~Truthy(canonical) THEN NoR
    ELSE ReportMatch(validateFieldMatch(v.propSchema, Lookup(defs, canonical.s, 1), v.propPath),
                     canonical.s, Lookup(defs, canonical.s, 1), root \o v.at,
                     message, location)

\* The walker callback of validateCommonFields (lines 243-259, 267-283 and
\* 292-308): root are the keys leading from the spec to the walked schema.
CheckCommonField(defs, map, v, root, message, location) ==
    CommonFieldNamed(defs, MapGet(map, LowerChars(Chars(v.propName))), v, root,
                     message, location)

\* walkSchema(reqBodySchema, callback): lines 243-259
CommonRequestFields(defs, map, pathName, method, w) ==
    EachVisit(w, [i \in 1..Len(w.out) |->
                    CheckCommonField(defs, map, w.out[i],
                        <<"paths", pathName, method, "requestBody", "content",
                          "application/json", "schema">>,
                        <<"Common field '", w.out[i].propName,
                          "' doesn't match standard definition in request body.">>,
                        <<pathName, ".", method, ".requestBody.">> \o w.out[i].propPath)])

\* lines 240-261: the request body of one operation
CommonRequestBody(defs, map, pathName, method, methodDef) ==
    When3(T3(Get(methodDef, "requestBody")),
          When3(T3(JsonSchemaOf(Get(methodDef, "requestBody"))),
                CommonRequestFields(defs, map, pathName, method,
                    walkSchema(JsonSchemaOf(Get(methodDef, "requestBody")), <<>>, <<>>))))

\* walkSchema(respSchema, callback): lines 267-283
CommonResponseFields(defs, map, pathName, method, statusCode, w) ==
    EachVisit(w, [i \in 1..Len(w.out) |->
                    CheckCommonField(defs, map, w.out[i],
                        <<"paths", pathName, method, "responses", statusCode, "content",
                          "application/json", "schema">>,
                        <<"Common field '", w.out[i].propName,
                          "' doesn't match standard definition in response.">>,
                        <<pathName, ".", method, ".responses.", statusCode, ".">>
                            \o w.out[i].propPath)])

\* lines 264-285: one response of one operation
CommonResponse(defs, map, pathName, method, statusCode, response) ==
    When3(T3(JsonSchemaOf(response)),
          CommonResponseFields(defs, map, pathName, method, statusCode,
                               walkSchema(JsonSchemaOf(response), <<>>, <<>>)))

\* lines 235-287: one entry of a path item
CommonOperation(defs, map, pathName, method, methodDef) ==
    IF ~TypeofObject(methodDef) THEN NoR
    ELSE Then(CommonRequestBody(defs, map, pathName, method, methodDef),
              When3(T3(Get(methodDef, "responses")),
                    EachEntry(Get(methodDef, "responses"),
                              [i \in 1..KeyCount(Get(methodDef, "responses")) |->
                                  CommonResponse(defs, map, pathName, method,
                                                 KeyAt(Get(methodDef, "responses"), i),
                                                 ValueAt(Get(methodDef, "responses"), i))])))

\* lines 291-309: one schema of components.schemas
CommonSchema(defs, map, schemaName, w) ==
    EachVisit(w, [i \in 1..Len(w.out) |->
                    CheckCommonField(defs, map, w.out[i],
                        <<"components", "schemas", schemaName>>,
                        <<"Common field '", w.out[i].propName, "' in schema '", schemaName,
                          "' doesn't match standard definition.">>,
                        <<"components.schemas.", schemaName, ".">> \o w.out[i].propPath)])

\* lines 234-288: the entries of one path item
CommonPathItem(defs, map, pathName, pathDef) ==
    EachEntry(pathDef,
              [i \in 1..KeyCount(pathDef) |->
                  CommonOperation(defs, map, pathName, KeyAt(pathDef, i),
                                  ValueAt(pathDef, i))])

validateCommonFields(spec, defs, map) ==
    Then(EachEntry(PathsOf(spec),
                   [i \in 1..KeyCount(PathsOf(spec)) |->
                       CommonPathItem(defs, map, KeyAt(PathsOf(spec), i),
                                      ValueAt(PathsOf(spec), i))]),
         When3(T3(SchemasOf(spec)),
               EachEntry(SchemasOf(spec),
                         [i \in 1..KeyCount(SchemasOf(spec)) |->
                             CommonSchema(defs, map, KeyAt(SchemasOf(spec), i),
                                          walkSchema(ValueAt(SchemasOf(spec), i), <<>>, <<>>))])))

(***************************************************************************)
(* Error Responses Validator                                               *)
(***************************************************************************)
COMMON_ERROR_CODES(statusCode) ==
    CASE statusCode = "400" -> Str("Bad Request - Invalid input")
      [] statusCode = "401" -> Str("Unauthorized - Authentication required")
      [] statusCode = "403" -> Str("Forbidden - Access denied")
      [] statusCode = "404" -> Str("Not Found - Resource does not exist")
      [] statusCode = "409" -> Str("Conflict - Resource conflict")
      [] statusCode = "422" -> Str("Unprocessable Entity - Validation failed")
      [] statusCode = "429" -> Str("Too Many Requests - Rate limit exceeded")
      [] statusCode = "500" -> Str("Internal Server Error")
      [] statusCode = "502" -> Str("Bad Gateway")
      [] statusCode = "503" -> Str("Service Unavailable")
      [] OTHER -> Undef

\* lines 43-75: one response of an operation
ErrorResponse(baseLocation, statusCode, response) ==
    LET numCode == parseInt(statusCode)
        respLocation == baseLocation \o <<".responses.", statusCode>>
        respSchema == JsonSchemaOf(response)
        properties == Get(respSchema, "properties")
        hasErrorField == Ne3(GetOpt(properties, "error"), Undef)
        hasMessageField == Ne3(GetOpt(properties, "message"), Undef)
        hasErrorsArray == Ne3(GetOpt(properties, "errors"), Undef)
    IN  IF OutOfRange(numCode, 400, 600) THEN NoR
        ELSE Then(
          When3(Not3(T3(Get(response, "description"))),
                Emit("warning",
                     <<"Error response ", statusCode, " is missing description.">>,
                     respLocation,
                     Text(<<"Add description, e.g., \"">>
                          \o ToS(OrElse(COMMON_ERROR_CODES(statusCode), Str("Error response")))
                          \o <<"\"">>))),
          If3(Not3(T3(respSchema)),
              Emit("warning",
                   <<"Error response ", statusCode, " has no schema defined.">>,
                   respLocation,
                   Text(<<"Add a schema for the error response body. Consider using ErrorResponse or ValidationErrorResponse from common.yaml.">>)),
              When3(And3(Not3(hasErrorField), And3(Not3(hasMessageField), Not3(hasErrorsArray))),
                    Emit("warning",
                         <<"Error response ", statusCode,
                           " schema should contain error information.">>,
                         respLocation,
                         Text(<<"Include fields like \"error\", \"message\", or \"errors\" to describe what went wrong.">>)))))

\* lines 24-105: one entry of a path item
ErrorOperation(pathName, method, methodDef) ==
    IF ~TypeofObject(methodDef) THEN NoR
    ELSE
      LET baseLocation == <<pathName, ".", method>>
          responses == OrElse(Get(methodDef, "responses"), EmptyObj)
          statusCodes == Keys(responses)
          hasErrorCode == \E i \in 1..Len(statusCodes) :
                              InRange(parseInt(statusCodes[i]), 400, 600)
          has400 == Get(responses, "400") # Undef
          has404 == Get(responses, "404") # Undef
          has500 == Get(responses, "500") # Undef
      IN  IF responses.k = "thrown" THEN ThrowR
          ELSE Chain(<<
            When3(Lift(~hasErrorCode),
                  Emit("error",
                       <<"Endpoint ", Upper(method), " ", pathName,
                         " has no error responses defined.">>,
                       baseLocation,
                       Text(<<"Add at least one 4xx or 5xx error response. Common codes: 400, 401, 403, 404, 500.">>))),
            EachEntry(responses,
                      [i \in 1..KeyCount(responses) |->
                          ErrorResponse(baseLocation, KeyAt(responses, i),
                                        ValueAt(responses, i))]),
            When3(Lift(method \in {"get", "delete"} /\ ~has404),
                  Emit("warning",
                       <<Upper(method), " ", pathName, " should define 404 response.">>,
                       baseLocation,
                       Text(<<"Add 404 response for when the resource is not found.">>))),
            When3(Lift(method \in {"post", "put", "patch"} /\ ~has400),
                  Emit("warning",
                       <<Upper(method), " ", pathName, " should define 400 response.">>,
                       baseLocation,
                       Text(<<"Add 400 response for invalid request data.">>))),
            When3(Lift(~has500),
                  Emit("info",
                       <<Upper(method), " ", pathName, " should define 500 response.">>,
                       baseLocation,
                       Text(<<"Consider adding 500 response for server errors.">>)))
          >>)

\* lines 23-106: the entries of one path item
ErrorPathItem(pathName, pathDef) ==
    EachEntry(pathDef,
              [i \in 1..KeyCount(pathDef) |->
                  ErrorOperation(pathName, KeyAt(pathDef, i), ValueAt(pathDef, i))])

validateErrorResponses(spec) ==
    EachEntry(PathsOf(spec),
              [i \in 1..KeyCount(PathsOf(spec)) |->
                  ErrorPathItem(KeyAt(PathsOf(spec), i), ValueAt(PathsOf(spec), i))])

(***************************************************************************)
(* Response Schemas Validator                                              *)
(***************************************************************************)
\* lines 31-89: one response of an operation
SchemaResponse(baseLocation, statusCode, response) ==
    LET numCode == parseInt(statusCode)
        respLocation == baseLocation \o <<".responses.", statusCode>>
        content == Get(response, "content")
        jsonContent == Get(content, "application/json")
        schema == Get(jsonContent, "schema")
        isEmpty == And3(T3(schema),
                   And3(Lift(TypeofObject(schema)),
                   And3(Not3(T3(Get(schema, "$ref"))),
                   And3(Not3(T3(Get(schema, "type"))),
                   And3(Not3(T3(Get(schema, "allOf"))),
                   And3(Not3(T3(Get(schema, "anyOf"))),
                   And3(Not3(T3(Get(schema, "oneOf"))),
                        Lift(KeyCount(schema) = 0))))))))
        noExample == And3(T3(schema),
                     And3(Not3(T3(Get(jsonContent, "example"))),
                     And3(Not3(T3(Get(jsonContent, "examples"))),
                          Not3(T3(Get(schema, "example"))))))
    IN  IF IsCode(numCode, 204) THEN NoR
        ELSE If3(Not3(T3(content)),
               When3(Lift(InRange(numCode, 200, 300)),
                     Emit("warning",
                          <<"Response ", statusCode, " has no content defined.">>,
                          respLocation,
                          Text(<<"Add content with appropriate media type (e.g., application/json) and schema.">>))),
               If3(Not3(T3(jsonContent)),
                 Emit("info",
                      <<"Response ", statusCode,
                        " does not define application/json content type.">>,
                      respLocation,
                      Text(<<"Consider adding application/json content type for API responses.">>)),
                 Then(
                   If3(Not3(T3(schema)),
                     Emit("error",
                          <<"Response ", statusCode, " application/json has no schema defined.">>,
                          respLocation \o <<".content.application/json">>,
                          Text(<<"Add schema to define the structure of the response body.">>)),
                     When3(isEmpty,
                       Emit("warning",
                            <<"Response ", statusCode, " has empty schema.">>,
                            respLocation \o <<".content.application/json.schema">>,
                            Text(<<"Define schema properties or use $ref to reference a component schema.">>)))),
                   When3(noExample,
                     When3(Lift(InRange(numCode, 200, 300)),
                       Emit("info",
                            <<"Response ", statusCode, " has no example defined.">>,
                            respLocation \o <<".content.application/json">>,
                            Text(<<"Consider adding example response to improve API documentation.">>)))))))

\* lines 11-90: one entry of a path item
SchemaOperation(pathName, method, methodDef) ==
    LET baseLocation == <<pathName, ".", method>>
        responses == Get(methodDef, "responses")
        codes == Keys(responses)
        hasSuccess == \E i \in 1..Len(codes) : InRange(parseInt(codes[i]), 200, 300)
    IN  If3(Or3(Lift(~TypeofObject(methodDef)), Not3(T3(responses))),
            NoR,
            Then(When3(Lift(~hasSuccess),
                       Emit("warning",
                            <<"Endpoint ", Upper(method), " ", pathName,
                              " has no success responses (2xx).">>,
                            baseLocation,
                            Text(<<"Add at least one 2xx success response (e.g., 200, 201, 204).">>))),
                 EachEntry(responses,
                           [i \in 1..KeyCount(responses) |->
                               SchemaResponse(baseLocation, KeyAt(responses, i),
                                              ValueAt(responses, i))])))

\* lines 10-91: the entries of one path item
SchemaPathItem(pathName, pathDef) ==
    EachEntry(pathDef,
              [i \in 1..KeyCount(pathDef) |->
                  SchemaOperation(pathName, KeyAt(pathDef, i), ValueAt(pathDef, i))])

validateResponseSchemas(spec) ==
    EachEntry(PathsOf(spec),
              [i \in 1..KeyCount(PathsOf(spec)) |->
                  SchemaPathItem(KeyAt(PathsOf(spec), i), ValueAt(PathsOf(spec), i))])

(***************************************************************************)
(* Components Validator                                                    *)
(***************************************************************************)
RECURSIVE Flatten(_, _)
Flatten(seqs, i) == IF i > Len(seqs) THEN <<>> ELSE seqs[i] \o Flatten(seqs, i + 1)

\* the elements of seq in order of first occurrence, as a Set keeps them
RECURSIVE Distinct(_, _, _)
Distinct(seq, i, acc) ==
    IF i > Len(seq) THEN acc
    ELSE Distinct(seq, i + 1, IF SeqIncludes(acc, seq[i]) THEN acc ELSE Append(acc, seq[i]))

RECURSIVE RefsIn(_)
RefsIn(obj) ==
    IF ~Truthy(obj) \/ ~TypeofObject(obj) THEN <<>>
    ELSE LET ref == Get(obj, "$ref")
             values == Values(obj)
         IN  (IF Truthy(ref) /\ ref.k = "str" THEN <<ref.s>> ELSE <<>>)
             \o Flatten([i \in 1..Len(values) |->
                            IF TypeofObject(values[i]) THEN RefsIn(values[i]) ELSE <<>>], 1)

\* A search that looks at the paths only, for comparison.
findRefsOfPaths(obj) == Distinct(RefsIn(GetOpt(obj, "paths")), 1, <<>>)

\* lines 7-21: the $ref strings of the document, each once
findAllRefs(obj) == Distinct(RefsIn(obj), 1, <<>>)

SchemaRefPrefix ==
    <<"#", "/", "c", "o", "m", "p", "o", "n", "e", "n", "t", "s", "/",
      "s", "c", "h", "e", "m", "a", "s", "/">>

\* the schema names the references name: those starting with the prefix, the
\* prefix removed
RECURSIVE SchemaRefs(_, _)
SchemaRefs(refs, i) ==
    IF i > Len(refs) THEN <<>>
    ELSE (IF HasPrefix(Chars(refs[i]), SchemaRefPrefix)
          THEN <<FromChars(SubSeq(Chars(refs[i]), Len(SchemaRefPrefix) + 1,
                                  Len(Chars(refs[i]))))>>
          ELSE <<>>)
         \o SchemaRefs(refs, i + 1)

\* seq.filter(keep)
RECURSIVE SelectIn(_, _, _)
SelectIn(seq, keep, i) ==
    IF i > Len(seq) THEN <<>>
    ELSE (IF seq[i] \in keep THEN <<seq[i]>> ELSE <<>>) \o SelectIn(seq, keep, i + 1)

\* lines 56-77: the checks of one defined schema
ComponentSchema(schemaName, schema) ==
    LET location == <<"components.schemas.", schemaName>>
    IN  Chain(<<
          When3(And3(Not3(T3(Get(schema, "type"))),
                And3(Not3(T3(Get(schema, "allOf"))),
                And3(Not3(T3(Get(schema, "anyOf"))),
                And3(Not3(T3(Get(schema, "oneOf"))),
                     Not3(T3(Get(schema, "$ref"))))))),
                Emit("warning",
                     <<"Schema '", schemaName, "' has no type definition.">>,
                     location,
                     Text(<<"Add a \"type\" field (e.g., \"object\", \"array\", \"string\") or use composition (allOf, anyOf, oneOf).">>))),
          When3(And3(Eq3(Get(schema, "type"), Str("object")),
                And3(Not3(T3(Get(schema, "properties"))),
                And3(Not3(T3(Get(schema, "allOf"))),
                     Not3(T3(Get(schema, "additionalProperties")))))),
                Emit("warning",
                     <<"Object schema '", schemaName, "' has no properties defined.">>,
                     location,
                     Text(<<"Define properties for this object schema or use \"additionalProperties\".">>))),
          When3(And3(Eq3(Get(schema, "type"), Str("array")), Not3(T3(Get(schema, "items")))),
                Emit("error",
                     <<"Array schema '", schemaName, "' has no items definition.">>,
                     location,
                     Text(<<"Add \"items\" field to define the type of array elements.">>)))
        >>)

validateComponents(spec) ==
    LET components == OrElse(Get(spec, "components"), EmptyObj)
        schemas == OrElse(Get(components, "schemas"), EmptyObj)
        definedSchemas == Keys(schemas)
        usedSchemas == Distinct(SchemaRefs(findAllRefs(spec), 1), 1, <<>>)
        defined == {definedSchemas[i] : i \in 1..Len(definedSchemas)}
        used == {usedSchemas[i] : i \in 1..Len(usedSchemas)}
        undefinedSchemas == SelectIn(usedSchemas, used \ defined, 1)
        unusedSchemas == SelectIn(definedSchemas, defined \ used, 1)
    IN  IF schemas.k = "thrown" THEN ThrowR
        ELSE Chain(<<
          Chain([i \in 1..Len(undefinedSchemas) |->
                   Emit("error",
                        <<"Referenced schema '", undefinedSchemas[i],
                          "' is not defined in components.schemas.">>,
                        <<"components.schemas">>,
                        Text(<<"Add schema definition for '", undefinedSchemas[i],
                               "' in components.schemas section.">>))]),
          Chain([i \in 1..Len(unusedSchemas) |->
                   Emit("info",
                        <<"Schema '", unusedSchemas[i], "' is defined but never used.">>,
                        <<"components.schemas.", unusedSchemas[i]>>,
                        Text(<<"Consider removing unused schema '", unusedSchemas[i],
                               "' or reference it in your API endpoints.">>))]),
          EachEntry(schemas,
                    [i \in 1..KeyCount(schemas) |->
                        ComponentSchema(KeyAt(schemas, i), ValueAt(schemas, i))]),
          When3(Lift(KeyCount(schemas) = 0
                     /\ KeyCount(OrElse(Get(spec, "paths"), EmptyObj)) > 0),
                Emit("info",
                     <<"No schemas defined in components.schemas.">>,
                     <<"components.schemas">>,
                     Text(<<"Consider defining reusable schemas in components.schemas to avoid duplication.">>)))
        >>)

(***************************************************************************)
(* Security Validator                                                      *)
(***************************************************************************)
\* v.length > 0, v.length === 0
LengthPositive(v) ==
    IF LengthOf(v).k = "thrown" THEN "X" ELSE Lift(LengthOf(v).k = "num" /\ LengthOf(v).n > 0)
LengthZero(v) ==
    IF LengthOf(v).k = "thrown" THEN "X" ELSE Lift(LengthOf(v) = Num(0))

\* lines 206-237: one entry of a path item
SecurityOperation(hasGlobalSecurity, pathName, method, methodDef) ==
    IF ~TypeofObject(methodDef) THEN NoR
    ELSE
      LET baseLocation == <<pathName, ".", method>>
          endpointSecurity == Get(methodDef, "security")
          hasEndpointSecurity == Ne3(endpointSecurity, Undef)
          isPublic == And3(hasEndpointSecurity, LengthZero(endpointSecurity))
      IN  IF hasEndpointSecurity = "X" \/ isPublic = "X" THEN ThrowR
          ELSE Then(
            If3(Lift(~hasGlobalSecurity /\ hasEndpointSecurity = "F"),
                Emit("warning",
                     <<"Endpoint ", Upper(method), " ", pathName, " has no security defined.">>,
                     baseLocation,
                     Text(<<"Add security requirement or explicitly mark as public with \"security: []\".">>)),
                When3(isPublic,
                      Emit("info",
                           <<"Endpoint ", Upper(method), " ", pathName,
                             " is publicly accessible (no authentication).">>,
                           baseLocation,
                           Text(<<"Verify this endpoint should be public. If authentication is needed, add security requirements.">>)))),
            When3(Lift(method \in {"post", "put", "patch", "delete"}),
                  When3(Lift(~hasGlobalSecurity
                             /\ (hasEndpointSecurity = "F" \/ isPublic = "T")),
                        Emit("error",
                             <<Upper(method), " ", pathName,
                               " modifies data but has no authentication.">>,
                             baseLocation,
                             Text(<<"Add security requirements for data-modifying operations (POST, PUT, PATCH, DELETE).">>)))))

\* lines 243-252: the scheme names of one global security requirement
SecurityRequirement(securitySchemes, secReq) ==
    EachEntry(secReq,
              [i \in 1..KeyCount(secReq) |->
                  When3(Not3(T3(Get(securitySchemes, KeyAt(secReq, i)))),
                        Emit("error",
                             <<"Security scheme '", KeyAt(secReq, i),
                               "' is referenced but not defined.">>,
                             <<"security">>,
                             Text(<<"Add '", KeyAt(secReq, i),
                                    "' to components.securitySchemes.">>)))])

\* lines 205-239: the entries of one path item
SecurityPathItem(hasGlobalSecurity, pathName, pathDef) ==
    EachEntry(pathDef,
              [i \in 1..KeyCount(pathDef) |->
                  SecurityOperation(hasGlobalSecurity, pathName, KeyAt(pathDef, i),
                                    ValueAt(pathDef, i))])

validateSecurity(spec) ==
    LET globalSecurity == OrElse(Get(spec, "security"), Arr(<<>>))
        hasGlobalSecurity == LengthPositive(globalSecurity) = "T"
        securitySchemes == OrElse(GetOpt(Get(spec, "components"), "securitySchemes"), EmptyObj)
    IN  IF PathsOf(spec).k = "thrown" THEN ThrowR
        ELSE Chain(<<
          When3(Lift(~hasGlobalSecurity /\ KeyCount(securitySchemes) = 0),
                Emit("warning",
                     <<"No security schemes defined in the API specification.">>,
                     <<"components.securitySchemes">>,
                     Text(<<"Add security schemes (e.g., bearerAuth, apiKey, oauth2) in components.securitySchemes.">>))),
          EachEntry(PathsOf(spec),
                    [i \in 1..KeyCount(PathsOf(spec)) |->
                        SecurityPathItem(hasGlobalSecurity, KeyAt(PathsOf(spec), i),
                                         ValueAt(PathsOf(spec), i))]),
          When3(Lift(hasGlobalSecurity),
                EachIndex(globalSecurity,
                          [i \in 1..KeyCount(globalSecurity) |->
                              SecurityRequirement(securitySchemes, ValueAt(globalSecurity, i))]))
        >>)

(***************************************************************************)
(* Versioning Validator                                                    *)
(***************************************************************************)
LowerLetters == {"a", "b", "c", "d", "e", "f", "g", "h", "i", "j", "k", "l", "m",
                 "n", "o", "p", "q", "r", "s", "t", "u", "v", "w", "x", "y", "z"}
PreReleaseChars == LowerLetters \cup UpperChars \cup DigitChars \cup {".", "-"}

\* the first index from i on whose character is not in set (Len + 1 if none)
RECURSIVE SkipWhile(_, _, _)
SkipWhile(cs, i, set) ==
    IF i > Len(cs) \/ cs[i] \notin set THEN i ELSE SkipWhile(cs, i + 1, set)

\* where \d+\. matched from i ends, 0 if it does not match there
NumberDot(cs, i) ==
    IF i = 0 THEN 0
    ELSE IF SkipWhile(cs, i, DigitChars) > i /\ SkipWhile(cs, i, DigitChars) <= Len(cs)
            /\ cs[SkipWhile(cs, i, DigitChars)] = "."
    THEN SkipWhile(cs, i, DigitChars) + 1
    ELSE 0

\* where the optional group (sign[a-zA-Z0-9.-]+)? matched from i ends
OptionalTag(cs, i, sign) ==
    IF i <= Len(cs) /\ cs[i] = sign /\ SkipWhile(cs, i + 1, PreReleaseChars) > i + 1
    THEN SkipWhile(cs, i + 1, PreReleaseChars)
    ELSE i

\* \d+(-[a-zA-Z0-9.-]+)?(\+[a-zA-Z0-9.-]+)?$ matched from i
PatchToEnd(cs, i) ==
    /\ i # 0
    /\ SkipWhile(cs, i, DigitChars) > i
    /\ OptionalTag(cs, OptionalTag(cs, SkipWhile(cs, i, DigitChars), "-"), "+") = Len(cs) + 1

\* /^\d+\.\d+\.\d+(-[a-zA-Z0-9.-]+)?(\+[a-zA-Z0-9.-]+)?$/.test(version)
isSemanticVersion(version) ==
    \E cs \in {CharsOfValue(version)} : PatchToEnd(cs, NumberDot(cs, NumberDot(cs, 1)))

\* v.startsWith(prefix): a TypeError unless v is a string
StartsWith3(v, prefix) ==
    IF v.k # "str" THEN "X" ELSE Lift(HasPrefix(Chars(v.s), prefix))

WhitespaceChars == {" "}

\* /v\d+|version\s*\d+/i.test(title)
TitleHasVersion(title) ==
    \E cs \in {LowerChars(CharsOfValue(title))} :
      \E word \in {<<"v", "e", "r", "s", "i", "o", "n">>} :
        \E i \in 1..Len(cs) :
          \/ cs[i] = "v" /\ i + 1 <= Len(cs) /\ cs[i + 1] \in DigitChars
          \/ /\ i + Len(word) - 1 <= Len(cs)
             /\ SubSeq(cs, i, i + Len(word) - 1) = word
             /\ \E j \in {SkipWhile(cs, i + Len(word), WhitespaceChars)} :
                    j <= Len(cs) /\ cs[j] \in DigitChars

\* /\/v\d+\//i.test(path)
PathHasVersion(path) ==
    \E cs \in {LowerChars(Chars(path))} :
      \E i \in 1..Len(cs) :
          /\ cs[i] = "/" /\ i + 1 <= Len(cs) /\ cs[i + 1] = "v"
          /\ \E j \in {SkipWhile(cs, i + 2, DigitChars)} :
                j > i + 2 /\ j <= Len(cs) /\ cs[j] = "/"

validateVersioning(spec) ==
    LET info == OrElse(Get(spec, "info"), EmptyObj)
        version == Get(info, "version")
        title == Get(info, "title")
        paths == OrElse(Get(spec, "paths"), EmptyObj)
        pathNames == Keys(paths)
        openapi == Get(spec, "openapi")
    IN  If3(Not3(T3(version)),
          Emit("error",
               <<"API specification is missing version information.">>,
               <<"info.version">>,
               Text(<<"Add version field in info section (e.g., \"1.0.0\").">>)),
          Chain(<<
            When3(Lift(~isSemanticVersion(version)),
                  Emit("warning",
                       <<"API version '">> \o ToS(version)
                         \o <<"' does not follow semantic versioning.">>,
                       <<"info.version">>,
                       Text(<<"Use semantic versioning format: MAJOR.MINOR.PATCH (e.g., \"1.0.0\", \"2.1.3\").">>))),
            When3(Or3(StartsWith3(version, <<"v">>), StartsWith3(version, <<"V">>)),
                  Emit("warning",
                       <<"API version '">> \o ToS(version) \o <<"' has \"v\" prefix.">>,
                       <<"info.version">>,
                       Text(<<"Remove \"v\" prefix from version. Use \"1.0.0\" instead of \"v1.0.0\".">>))),
            When3(And3(T3(title), Lift(TitleHasVersion(title))),
                  Emit("info",
                       <<"API title contains version information.">>,
                       <<"info.title">>,
                       Text(<<"Consider removing version from title as it's already in info.version.">>))),
            When3(Lift(\E i \in 1..Len(pathNames) : PathHasVersion(pathNames[i])),
                  Emit("info",
                       <<"API uses path-based versioning (e.g., /v1/resource).">>,
                       <<"paths">>,
                       Text(<<"Ensure version in paths matches info.version. Consider using header-based versioning instead.">>))),
            If3(Not3(T3(openapi)),
                Emit("error",
                     <<"Missing OpenAPI version.">>,
                     <<"openapi">>,
                     Text(<<"Add openapi field (e.g., \"3.0.3\").">>)),
                When3(Not3(StartsWith3(openapi, <<"3", ".">>)),
                      Emit("warning",
                           <<"OpenAPI version '">> \o ToS(openapi) \o <<"' is outdated.">>,
                           <<"openapi">>,
                           Text(<<"Consider upgrading to OpenAPI 3.0.3 or later.">>))))
          >>))

(***************************************************************************)
(* Path Parameters Validator                                               *)
(***************************************************************************)
\* the index of the first "}" from i on (Len + 1 if none)
RECURSIVE ClosingBrace(_, _)
ClosingBrace(cs, i) ==
    IF i > Len(cs) \/ cs[i] = "}" THEN i ELSE ClosingBrace(cs, i + 1)

\* pathTemplate.match(/\{([^}]+)\}/g), each match without its braces
RECURSIVE PlaceholdersFrom(_, _)
PlaceholdersFrom(cs, i) ==
    IF i > Len(cs) THEN <<>>
    ELSE IF cs[i] = "{" /\ ClosingBrace(cs, i + 1) <= Len(cs) /\ ClosingBrace(cs, i + 1) > i + 1
    THEN <<FromChars(SubSeq(cs, i + 1, ClosingBrace(cs, i + 1) - 1))>>
         \o PlaceholdersFrom(cs, ClosingBrace(cs, i + 1) + 1)
    ELSE PlaceholdersFrom(cs, i + 1)

extractPathParams(pathTemplate) == PlaceholdersFrom(Chars(pathTemplate), 1)

\* lines 140-174: the checks of one declared path parameter
PathParameter(expectedParams, baseLocation, param) ==
    LET paramLocation == baseLocation \o <<".parameters">>
        name == ToS(Get(param, "name"))
    IN  Chain(<<
          When3(Ne3(Get(param, "required"), Bool(TRUE)),
                Emit("error",
                     <<"Path parameter '">> \o name \o <<"' must be required.">>,
                     paramLocation,
                     Text(<<"Set \"required\": true for path parameter '">> \o name \o <<"'.">>))),
          When3(Not3(T3(Get(param, "schema"))),
                Emit("error",
                     <<"Path parameter '">> \o name \o <<"' has no schema defined.">>,
                     paramLocation,
                     Text(<<"Add schema for '">> \o name \o <<"' (e.g., { \"type\": \"string\" }).">>))),
          When3(Not3(T3(Get(param, "description"))),
                Emit("warning",
                     <<"Path parameter '">> \o name \o <<"' is missing description.">>,
                     paramLocation,
                     Text(<<"Add description for '">> \o name
                          \o <<"' explaining what it represents.">>))),
          When3(Lift(~SeqIncludes(expectedParams, Get(param, "name"))),
                Emit("warning",
                     <<"Path parameter '">> \o name
                       \o <<"' is defined but not used in path template.">>,
                     paramLocation,
                     Text(<<"Remove unused parameter '">> \o name \o <<"' or add {">> \o name
                          \o <<"} to the path.">>)))
        >>)

\* parameters.filter(p => p.in === 'path')
RECURSIVE InPath(_, _)
InPath(params, i) ==
    IF i > Len(params) THEN <<>>
    ELSE (IF Get(params[i], "in") = Str("path") THEN <<params[i]>> ELSE <<>>)
         \o InPath(params, i + 1)

\* lines 118-175: one entry of a path item whose template has placeholders
PathOperation(expectedParams, pathName, method, methodDef) ==
    IF ~TypeofObject(methodDef) THEN NoR
    ELSE
      LET baseLocation == <<pathName, ".", method>>
          parameters == OrElse(Get(methodDef, "parameters"), Arr(<<>>))
          pathParams == InPath(parameters.a, 1)
          definedPathParams == [i \in 1..Len(pathParams) |-> Get(pathParams[i], "name")]
      IN  IF parameters.k # "arr" THEN ThrowR
          ELSE IF \E i \in 1..Len(parameters.a) : IsNullish(parameters.a[i]) THEN ThrowR
          ELSE Then(
            Chain([i \in 1..Len(expectedParams) |->
              When3(Lift(~SeqIncludes(definedPathParams, expectedParams[i])),
                    Emit("error",
                         <<"Path parameter '", expectedParams[i].s, "' in ", Upper(method), " ",
                           pathName, " is not defined.">>,
                         baseLocation \o <<".parameters">>,
                         Text(<<"Add parameter definition: { \"name\": \"", expectedParams[i].s,
                                "\", \"in\": \"path\", \"required\": true, \"schema\": { \"type\": \"string\" } }">>)))]),
            Chain([i \in 1..Len(pathParams) |->
                     PathParameter(expectedParams, baseLocation, pathParams[i])]))

\* lines 112-176: one path, expectedParams the placeholders of its template
ParametersPathItem(expectedParams, pathName, pathDef) ==
    IF Len(expectedParams) = 0 THEN NoR
    ELSE EachEntry(pathDef,
                   [i \in 1..KeyCount(pathDef) |->
                       PathOperation(expectedParams, pathName, KeyAt(pathDef, i),
                                     ValueAt(pathDef, i))])

validatePathParameters(spec) ==
    EachEntry(PathsOf(spec),
              [i \in 1..KeyCount(PathsOf(spec)) |->
                  ParametersPathItem(Strs(extractPathParams(KeyAt(PathsOf(spec), i))),
                                     KeyAt(PathsOf(spec), i), ValueAt(PathsOf(spec), i))])

(***************************************************************************)
(* Required Fields Validator                                               *)
(***************************************************************************)
\* lines 18-56: the request body of one operation
RequiredRequestBody(pathName, method, methodDef) ==
    LET location == <<pathName, ".", method, ".requestBody">>
        requestBody == Get(methodDef, "requestBody")
        reqBodySchema == JsonSchemaOf(requestBody)
        properties == Get(reqBodySchema, "properties")
        required == Get(reqBodySchema, "required")
        propCount == KeyCount(properties)
    IN  When3(T3(requestBody),
          When3(T3(reqBodySchema),
            Chain(<<
              When3(And3(T3(properties), Not3(T3(required))),
                    When3(Lift(propCount > 0),
                          Emit("warning",
                               <<"Request body has ">> \o NumToks(propCount)
                                 \o <<" properties but no required fields specified.">>,
                               location,
                               Text(<<"Add \"required\" array to specify which fields are mandatory.">>)))),
              When3(And3(T3(required), And3(LengthZero(required), T3(properties))),
                    When3(Lift(propCount > 0),
                          Emit("info",
                               <<"Request body has ">> \o NumToks(propCount)
                                 \o <<" properties but required array is empty.">>,
                               location,
                               Text(<<"Consider marking critical fields as required.">>)))),
              When3(Lift(method \in {"post", "put"}),
                    When3(Ne3(Get(requestBody, "required"), Bool(TRUE)),
                          Emit("warning",
                               <<Upper(method), " request body should be marked as required.">>,
                               location,
                               Text(<<"Set \"required\": true for the requestBody.">>))))
            >>)))

\* lines 62-88: one schema of components.schemas
RequiredSchema(schemaName, schema) ==
    LET location == <<"components.schemas.", schemaName>>
        properties == Get(schema, "properties")
        required == Get(schema, "required")
        propCount == KeyCount(properties)
    IN  If3(Or3(Ne3(Get(schema, "type"), Str("object")), Not3(T3(properties))),
            NoR,
            Then(When3(Lift(~Truthy(required) /\ propCount > 0),
                       Emit("info",
                            <<"Schema '", schemaName, "' has ">> \o NumToks(propCount)
                              \o <<" properties but no required fields.">>,
                            location,
                            Text(<<"Consider adding \"required\" array for mandatory fields.">>))),
                 When3(Lift(Truthy(required) /\ required.k = "arr"),
                       EachIndex(required,
                         [i \in 1..KeyCount(required) |->
                           When3(Lift(~SeqIncludes(Strs(Keys(properties)), ValueAt(required, i))),
                                 Emit("error",
                                      <<"Schema '", schemaName, "' marks '">>
                                        \o ToS(ValueAt(required, i))
                                        \o <<"' as required but property doesn't exist.">>,
                                      location,
                                      Text(<<"Remove '">> \o ToS(ValueAt(required, i))
                                           \o <<"' from required array or add it to properties.">>)))]))))

\* lines 12-57: the entries of one path item
RequiredPathItem(pathName, pathDef) ==
    EachEntry(pathDef,
              [i \in 1..KeyCount(pathDef) |->
                  IF ~TypeofObject(ValueAt(pathDef, i)) THEN NoR
                  ELSE RequiredRequestBody(pathName, KeyAt(pathDef, i), ValueAt(pathDef, i))])

validateRequiredFields(spec) ==
    Then(EachEntry(PathsOf(spec),
                   [i \in 1..KeyCount(PathsOf(spec)) |->
                       RequiredPathItem(KeyAt(PathsOf(spec), i), ValueAt(PathsOf(spec), i))]),
         When3(T3(SchemasOf(spec)),
               EachEntry(SchemasOf(spec),
                         [i \in 1..KeyCount(SchemasOf(spec)) |->
                             RequiredSchema(KeyAt(SchemasOf(spec), i),
                                            ValueAt(SchemasOf(spec), i))])))


(***************************************************************************)
(* HTTP Methods Validator                                                  *)
(***************************************************************************)
HttpMethods == {"get", "post", "put", "patch", "delete", "options", "head"}

\* lines 18-72: the conventions of one path, from the methods it defines
MethodConventions(pathName, methods) ==
    LET hasIdParam == Len(extractPathParams(pathName)) > 0
        has(m) == SeqIncludes(methods, m)
        hasGet == has("get")
        hasUpdate == has("put") \/ has("patch")
        hasDelete == has("delete")
        hasPost == has("post")
    IN  IF hasIdParam
        THEN Chain(<<
               When3(Lift(hasGet /\ ~hasUpdate /\ ~hasDelete),
                     Emit("info",
                          <<"Resource ", pathName, " is read-only (no PUT/PATCH/DELETE).">>,
                          <<pathName>>,
                          Text(<<"Consider adding update (PUT/PATCH) or delete (DELETE) operations if resource is mutable.">>))),
               When3(Lift(hasUpdate /\ ~hasGet),
                     Emit("warning",
                          <<"Resource ", pathName, " can be updated but not retrieved.">>,
                          <<pathName>>,
                          Text(<<"Add GET operation to allow reading the resource.">>))),
               When3(Lift(has("put") /\ has("patch")),
                     Emit("info",
                          <<"Resource ", pathName, " has both PUT and PATCH.">>,
                          <<pathName>>,
                          Text(<<"Consider using only PUT (full replacement) or PATCH (partial update).">>)))
             >>)
        ELSE Chain(<<
               When3(Lift(hasPost /\ ~hasGet),
                     Emit("info",
                          <<"Collection ", pathName, " allows creation but not listing.">>,
                          <<pathName>>,
                          Text(<<"Consider adding GET operation to list resources.">>))),
               When3(Lift(has("put") \/ has("patch")),
                     Emit("warning",
                          <<"Collection ", pathName, " has PUT or PATCH operation.">>,
                          <<pathName>>,
                          Text(<<"PUT/PATCH is typically for individual resources. Consider moving to /{id} endpoint.">>))),
               When3(Lift(hasDelete),
                     Emit("warning",
                          <<"Collection ", pathName, " has DELETE operation.">>,
                          <<pathName>>,
                          Text(<<"DELETE on collections (bulk delete) should be carefully considered. Usually DELETE is for individual resources.">>)))
             >>)

\* lines 75-116: one entry of a path item
MethodOperation(pathName, method, methodDef) ==
    IF ~TypeofObject(methodDef) THEN NoR
    ELSE
      LET baseLocation == <<pathName, ".", method>>
          requestBody == Get(methodDef, "requestBody")
          hasRequestBody == Truthy(requestBody)
          responses == OrElse(Get(methodDef, "responses"), EmptyObj)
          responseCodes == [i \in 1..Len(Keys(responses)) |-> parseInt(Keys(responses)[i])]
          defines(n) == \E i \in 1..Len(responseCodes) : IsCode(responseCodes[i], n)
      IN  IF requestBody.k = "thrown" THEN ThrowR
          ELSE Chain(<<
            When3(Lift(method \in {"get", "delete", "head"} /\ hasRequestBody),
                  Emit("warning",
                       <<Upper(method), " ", pathName, " has a request body.">>,
                       baseLocation,
                       Text(<<Upper(method), " requests typically should not have request bodies. Use query parameters instead.">>))),
            When3(Lift(method \in {"post", "put", "patch"} /\ ~hasRequestBody),
                  Emit("warning",
                       <<Upper(method), " ", pathName, " has no request body.">>,
                       baseLocation,
                       Text(<<Upper(method), " requests typically require a request body to send data.">>))),
            When3(Lift(method = "post"),
                  When3(Lift(~defines(201) /\ ~defines(200)),
                        Emit("info",
                             <<"POST ", pathName, " doesn't define 200 or 201 response.">>,
                             baseLocation \o <<".responses">>,
                             Text(<<"POST requests typically return 201 (Created) or 200 (OK).">>)))),
            When3(Lift(method = "delete"),
                  When3(Lift(~defines(204) /\ ~defines(200)),
                        Emit("info",
                             <<"DELETE ", pathName, " doesn't define 200 or 204 response.">>,
                             baseLocation \o <<".responses">>,
                             Text(<<"DELETE requests typically return 204 (No Content) or 200 (OK).">>))))
          >>)

\* lines 10-117: one path
MethodPathItem(pathName, pathDef) ==
    IF IsNullish(pathDef) THEN ThrowR
    ELSE Then(MethodConventions(pathName,
                                SelectSeq(Keys(pathDef), LAMBDA key : key \in HttpMethods)),
              EachEntry(pathDef,
                        [i \in 1..KeyCount(pathDef) |->
                            MethodOperation(pathName, KeyAt(pathDef, i), ValueAt(pathDef, i))]))

validateHttpMethods(spec) ==
    EachEntry(PathsOf(spec),
              [i \in 1..KeyCount(PathsOf(spec)) |->
                  MethodPathItem(KeyAt(PathsOf(spec), i), ValueAt(PathsOf(spec), i))])

(***************************************************************************)
(* Examples Validator                                                      *)
(***************************************************************************)
PrimitiveTypes == {Str("string"), Str("number"), Str("integer"), Str("boolean")}

\* schema.required?.includes(propName)
RequiredIncludes(required, propName) ==
    CASE required.k \in {"undef", "null"} -> "F"
      [] required.k = "arr" -> Lift(SeqIncludes(required.a, Str(propName)))
      [] required.k = "str" ->
           Lift(\E i \in 1..Len(Chars(required.s)) + 1, j \in 0..Len(Chars(required.s)) :
                  SubSeq(Chars(required.s), i, j) = Chars(propName) /\ j >= i - 1)
      [] OTHER -> "X"

\* lines 37-54: one property of a component schema
ExampleProperty(schemaName, schema, propName, propSchema) ==
    If3(T3(Get(propSchema, "$ref")),
        NoR,
        When3(And3(Not3(T3(Get(propSchema, "example"))),
                   And3(Not3(T3(Get(propSchema, "examples"))),
                        Not3(T3(Get(propSchema, "default"))))),
          When3(Lift(Get(propSchema, "type") \in PrimitiveTypes),
            When3(RequiredIncludes(Get(schema, "required"), propName),
                  Emit("info",
                       <<"Required property '", schemaName, ".", propName, "' has no example.">>,
                       <<"components.schemas.", schemaName, ".properties.", propName>>,
                       Text(<<"Add example to show valid value.">>))))))

\* lines 10-56: one schema of components.schemas
ExampleSchema(schemaName, schema) ==
    LET location == <<"components.schemas.", schemaName>>
        properties == Get(schema, "properties")
        isObject == And3(Eq3(Get(schema, "type"), Str("object")), T3(properties))
    IN  If3(Or3(T3(Get(schema, "$ref")),
                Or3(T3(Get(schema, "allOf")),
                    Or3(T3(Get(schema, "anyOf")), T3(Get(schema, "oneOf"))))),
            NoR,
            Then(When3(And3(Not3(T3(Get(schema, "example"))), Not3(T3(Get(schema, "examples")))),
                       If3(isObject,
                           When3(Lift(KeyCount(properties) > 0 /\ KeyCount(properties) <= 10),
                                 Emit("info",
                                      <<"Schema '", schemaName, "' has no example defined.">>,
                                      location,
                                      Text(<<"Add example field to improve API documentation.">>))),
                           When3(Lift(Get(schema, "type") \in PrimitiveTypes),
                                 Emit("info",
                                      <<"Schema '", schemaName, "' has no example value.">>,
                                      location,
                                      Text(<<"Add example field to show valid values.">>))))),
                 When3(isObject,
                       EachEntry(properties,
                                 [i \in 1..KeyCount(properties) |->
                                     ExampleProperty(schemaName, schema, KeyAt(properties, i),
                                                     ValueAt(properties, i))]))))

\* lines 66-80: one parameter of an operation
ExampleParameter(pathName, method, i, param) ==
    When3(And3(Not3(T3(Get(param, "example"))),
               And3(Not3(T3(Get(param, "examples"))),
                    Not3(T3(GetOpt(Get(param, "schema"), "example"))))),
          When3(Lift(Get(param, "in") \in {Str("query"), Str("path")}),
                Emit("info",
                     <<"Parameter '">> \o ToS(Get(param, "name")) \o <<"' has no example value.">>,
                     <<pathName, ".", method, ".parameters[">> \o NumToks(i) \o <<"]">>,
                     Text(<<"Add example to show valid parameter value.">>))))

\* lines 63-81: one entry of a path item
ExampleOperation(pathName, method, methodDef) ==
    If3(Or3(Lift(~TypeofObject(methodDef)), Not3(T3(Get(methodDef, "parameters")))),
        NoR,
        EachIndex(Get(methodDef, "parameters"),
                  [i \in 1..KeyCount(Get(methodDef, "parameters")) |->
                      ExampleParameter(pathName, method, i - 1,
                                       ValueAt(Get(methodDef, "parameters"), i))]))

\* lines 62-82: the entries of one path item
ExamplePathItem(pathName, pathDef) ==
    EachEntry(pathDef,
              [i \in 1..KeyCount(pathDef) |->
                  ExampleOperation(pathName, KeyAt(pathDef, i), ValueAt(pathDef, i))])

validateExamples(spec) ==
    Then(When3(T3(SchemasOf(spec)),
               EachEntry(SchemasOf(spec),
                         [i \in 1..KeyCount(SchemasOf(spec)) |->
                             ExampleSchema(KeyAt(SchemasOf(spec), i),
                                           ValueAt(SchemasOf(spec), i))])),
         EachEntry(PathsOf(spec),
                   [i \in 1..KeyCount(PathsOf(spec)) |->
                       ExamplePathItem(KeyAt(PathsOf(spec), i), ValueAt(PathsOf(spec), i))]))


(***************************************************************************)
(* The in-place sorts of a validator run, applied to the objects sorted.   *)
(***************************************************************************)
\* v with the enum of the schema under the keys at sorted
RECURSIVE SortEnumAt(_, _)
SortEnumAt(v, at) ==
    IF at = <<>> THEN SortedEnum(v)
    ELSE CASE v.k = "obj" ->
                Obj([i \in 1..Len(v.o) |->
                       IF v.o[i][1] = Head(at)
                       THEN <<v.o[i][1], SortEnumAt(v.o[i][2], Tail(at))>>
                       ELSE v.o[i]])
           [] v.k = "arr" ->
                Arr([i \in 1..Len(v.a) |->
                       IF IndexKey(i - 1) = Head(at)
                       THEN SortEnumAt(v.a[i], Tail(at))
                       ELSE v.a[i]])
           [] OTHER -> v

RECURSIVE SpecAfter(_, _, _)
SpecAfter(spec, effs, i) ==
    IF i > Len(effs) THEN spec
    ELSE SpecAfter(IF effs[i].target = "spec" THEN SortEnumAt(spec, effs[i].at) ELSE spec,
                   effs, i + 1)

\* commonFieldDefinitions with the definitions the run sorted
DefinitionsAfter(defs, effs) ==
    [i \in 1..Len(defs) |->
        IF \E j \in 1..Len(effs) : effs[j].target = "registry" /\ effs[j].name = defs[i][1]
        THEN <<defs[i][1], SortedEnum(defs[i][2])>>
        ELSE defs[i]]

(***************************************************************************)
(* AI enhancement, as far as runValidation depends on it: ai is what the   *)
(* AI service does during the call: whether isGeminiEnabled() is true and  *)
(* which of the requests made to it fail.                                  *)
(***************************************************************************)
\* isGeminiEnabled() false
AiDisabled == [enabled |-> FALSE, failing |-> {}]

\* isGeminiEnabled() true; failing holds the numbers of the requests, counted
\* in the order callGeminiAPI is called, that are rejected
AiService(failing) == [enabled |-> TRUE, failing |-> failing]

\* An enhancement that replaces the suggestion by the service's answer, for
\* comparison.
enhanceReplacingSuggestion(issue, ai, request) ==
    IF ~ai.enabled THEN issue
    ELSE IF request \notin ai.failing
    THEN [level |-> issue.level, message |-> issue.message, location |-> issue.location,
          suggestion |-> Text(<<"aiResponse">>), validator |-> issue.validator,
          ai_enhanced |-> TRUE, ai_timestamp |-> "now"]
    ELSE [level |-> issue.level, message |-> issue.message, location |-> issue.location,
          suggestion |-> Text(<<"error.message">>), validator |-> issue.validator,
          ai_enhanced |-> FALSE]

\* lines 129-152; request is the number of the request it makes
enhanceWithAI(issue, ai, request) ==
    IF ~ai.enabled THEN issue
    ELSE IF request \notin ai.failing
    THEN [level |-> issue.level, message |-> issue.message, location |-> issue.location,
          suggestion |-> issue.suggestion, validator |-> issue.validator,
          ai_suggestion |-> "aiResponse", ai_enhanced |-> TRUE, ai_timestamp |-> "now"]
    ELSE [level |-> issue.level, message |-> issue.message, location |-> issue.location,
          suggestion |-> issue.suggestion, validator |-> issue.validator,
          ai_enhanced |-> FALSE, ai_error |-> "error.message"]

\* lines 190-222: the batches are enhanced one after the other and each
\* batch's results are appended in the order of its issues, so result i is
\* the enhancement of issue i, made by request i
enhanceBatchWithAI(issues, ai) ==
    IF ~ai.enabled \/ Len(issues) = 0 THEN issues
    ELSE [i \in 1..Len(issues) |-> enhanceWithAI(issues[i], ai, i)]

\* lines 230-275; request is the number of the request it makes
getGeneralRecommendations(spec, ai, request) ==
    IF ai.enabled /\ request \notin ai.failing
    THEN [recommendations |-> "aiResponse", generated_at |-> "now"]
    ELSE Null

(***************************************************************************)
(* Configuration management: ConfigManager.loadConfig and mergeConfig.     *)
(* env is process.env, an object of strings; file is config/config.yaml.   *)
(***************************************************************************)
\* NaN, and a number with decimals: whole its integer part, fraction the
\* digits after the point without trailing zeros
NaN == [k |-> "nan"]
Float(whole, fraction) == [k |-> "num", n |-> whole, fraction |-> fraction]

RECURSIVE DigitsFrom(_, _)
DigitsFrom(cs, i) ==
    IF i > Len(cs) \/ cs[i] \notin DigitChars THEN <<>>
    ELSE <<cs[i]>> \o DigitsFrom(cs, i + 1)

RECURSIVE StripZeros(_)
StripZeros(ds) ==
    IF ds # <<>> /\ ds[Len(ds)] = "0" THEN StripZeros(SubSeq(ds, 1, Len(ds) - 1)) ELSE ds

\* parseFloat(s) of an unsigned decimal string: leading digits, then a point
\* and digits if any; NaN without either
parseFloat(s) ==
    LET cs == Chars(s)
        whole == DigitsFrom(cs, 1)
        fraction == IF Len(whole) < Len(cs) /\ cs[Len(whole) + 1] = "."
                    THEN DigitsFrom(cs, Len(whole) + 2) ELSE <<>>
    IN  IF whole = <<>> /\ fraction = <<>> THEN NaN
        ELSE IF StripZeros(fraction) = <<>> THEN Num(DigitsValue(cs, 1, 0))
        ELSE Float(DigitsValue(cs, 1, 0), StripZeros(fraction))

\* parseInt(s) as a value
IntegerOf(s) == IF parseInt(s).nan THEN NaN ELSE Num(parseInt(s).n)

\* lines 306-337: the defaults, each read from its environment variable first
defaultConfig(env) ==
    Obj(<<
      <<"ai", Obj(<< <<"gemini", Obj(<<
          <<"apiKey", OrElse(Get(env, "GEMINI_API_KEY"), Str(""))>>,
          <<"model", OrElse(Get(env, "GEMINI_MODEL"), Str("gemini-1.5-flash"))>>,
          <<"temperature",
            parseFloat(OrElse(Get(env, "GEMINI_TEMPERATURE"), Str("0.7")).s)>>,
          <<"maxTokens",
            IntegerOf(OrElse(Get(env, "GEMINI_MAX_TOKENS"), Str("8192")).s)>> >>)>> >>)>>,
      <<"validation", Obj(<<
          <<"defaultStrategy", OrElse(Get(env, "VALIDATION_STRATEGY"), Str("inline"))>>,
          <<"minSeverity", OrElse(Get(env, "MIN_SEVERITY"), Str("warning"))>>,
          <<"failOnError", Bool(Get(env, "FAIL_ON_ERROR") = Str("true"))>> >>)>>,
      <<"output", Obj(<<
          <<"format", OrElse(Get(env, "OUTPUT_FORMAT"), Str("text"))>>,
          <<"colorize", Bool(Get(env, "COLORIZE") # Str("false"))>>,
          <<"verbose", Bool(Get(env, "VERBOSE") = Str("true"))>> >>)>>,
      <<"server", Obj(<<
          <<"port", IntegerOf(OrElse(Get(env, "PORT"), Str("3000")).s)>>,
          <<"host", OrElse(Get(env, "HOST"), Str("localhost"))>>,
          <<"corsEnabled", Bool(Get(env, "CORS_ENABLED") # Str("false"))>> >>)>>
    >>)

\* output[key] = value on an object
SetKey(output, key, value) ==
    IF \E i \in 1..Len(output.o) : output.o[i][1] = key
    THEN Obj([i \in 1..Len(output.o) |->
                IF output.o[i][1] = key THEN <<key, value>> ELSE output.o[i]])
    ELSE Obj(Append(output.o, <<key, value>>))

\* { ...target } of an object, or of a value without own properties
Spread(target) == IF target.k = "obj" THEN target ELSE EmptyObj

\* lines 362-372: the deep merge; a mapping of the source is merged into the
\* target's value of the key, any other value of the source replaces it
RECURSIVE mergeConfig(_, _)
mergeConfig(target, source) ==
    LET RECURSIVE Merge(_, _)
        Merge(output, i) ==
            IF i > KeyCount(source) THEN output
            ELSE Merge(SetKey(output, KeyAt(source, i),
                              IF Truthy(ValueAt(source, i)) /\ ValueAt(source, i).k = "obj"
                              THEN mergeConfig(OrElse(Get(target, KeyAt(source, i)), EmptyObj),
                                               ValueAt(source, i))
                              ELSE ValueAt(source, i)),
                       i + 1)
    IN  Merge(Spread(target), 1)

\* lines 305-357: the defaults merged with config.yaml when the file exists
\* and parses, the defaults alone otherwise
loadConfig(env, file) ==
    IF file.k = "yaml" THEN mergeConfig(defaultConfig(env), file.document)
    ELSE defaultConfig(env)

(***************************************************************************)
(* The orchestrator                                                        *)
(***************************************************************************)
allValidators ==
    <<Str("descriptions"), Str("commonFields"), Str("errorResponses"), Str("components"),
      Str("security"), Str("versioning"), Str("responseSchemas"), Str("pathParameters"),
      Str("requiredFields"), Str("httpMethods"), Str("examples")>>

getValidatorsToRun(validators) ==
    IF validators = Str("all") \/ ~Truthy(validators) \/ LengthOf(validators) = Num(0)
    THEN allValidators
    ELSE IF validators.k = "arr"
    THEN SelectSeq(validators.a, LAMBDA v : SeqIncludes(allValidators, v))
    ELSE allValidators

\* severityOrder[level]
severityOrder(level) ==
    CASE level = Str("error") -> Num(0)
      [] level = Str("warning") -> Num(1)
      [] level = Str("info") -> Num(2)
      [] OTHER -> Undef

\* A faulty filter, for comparison: it keeps only the issues of the level
\* minSeverity itself.
filterByExactLevel(results, minSeverity) ==
    SelectSeq(results, LAMBDA result : Str(result.level) = minSeverity)

filterBySeverity(results, minSeverity) ==
    LET minLevel == OrElse(severityOrder(minSeverity), Num(1))
        Keeps(result) ==
            LET level == severityOrder(Str(result.level))
            IN  level.k = "num" /\ level.n <= minLevel.n
    IN  SelectSeq(results, Keeps)

\* the object addResult pushes onto results
addResult(level, message, location, suggestion, validator) ==
    [level |-> level, message |-> message, location |-> location,
     suggestion |-> suggestion, validator |-> validator]

\* a validator's addResult calls: each passes four arguments
Pushed(out) ==
    [i \in 1..Len(out) |->
        addResult(out[i].level, out[i].message, out[i].location, out[i].suggestion, Undef)]

\* the call runValidation makes for one validator name (lines 373-415)
Validate(name, spec, defs, map) ==
    CASE name = Str("descriptions") -> validateDescriptions(spec)
      [] name = Str("commonFields") -> validateCommonFields(spec, defs, map)
      [] name = Str("errorResponses") -> validateErrorResponses(spec)
      [] name = Str("components") -> validateComponents(spec)
      [] name = Str("security") -> validateSecurity(spec)
      [] name = Str("versioning") -> validateVersioning(spec)
      [] name = Str("responseSchemas") -> validateResponseSchemas(spec)
      [] name = Str("pathParameters") -> validatePathParameters(spec)
      [] name = Str("requiredFields") -> validateRequiredFields(spec)
      [] name = Str("httpMethods") -> validateHttpMethods(spec)
      [] name = Str("examples") -> validateExamples(spec)

\* Where runValidation stands before its first validator.
Started(spec, defs) ==
    [spec |-> spec, defs |-> defs, results |-> <<>>, threw |-> FALSE, invoked |-> <<>>]

\* where runValidation stands after a validator that was called returned r
Ran(s, name, r) ==
    [spec |-> SpecAfter(s.spec, r.eff, 1),
     defs |-> DefinitionsAfter(s.defs, r.eff),
     results |-> s.results \o Pushed(r.out),
     threw |-> r.threw,
     invoked |-> Append(s.invoked, name)]

\* one `if (validatorsToRun.includes(name)) validateX(apiSpec, addResult)`
RunOne(s, name, validatorsToRun, map) ==
    IF s.threw \/ ~SeqIncludes(validatorsToRun, name) THEN s
    ELSE Ran(s, name, Validate(name, s.spec, s.defs, map))

RECURSIVE RunFrom(_, _, _, _, _)
RunFrom(s, order, i, validatorsToRun, map) ==
    IF i > Len(order) THEN s
    ELSE RunFrom(RunOne(s, order[i], validatorsToRun, map), order, i + 1, validatorsToRun, map)

\* A faulty orchestrator, for comparison: it runs the validators in the order
\* options.validators lists them.
RunInListOrder(validatorsToRun, spec, defs, map) ==
    RunFrom(Started(spec, defs), validatorsToRun, 1, validatorsToRun, map)

\* lines 373-415: the eleven validators, each if selected, in the order the
\* code lists them
RunValidators(validatorsToRun, spec, defs, map) ==
    RunFrom(Started(spec, defs), allValidators, 1, validatorsToRun, map)


\* list.filter(r => r.level === level).length
CountLevel(list, level) == Len(SelectSeq(list, LAMBDA r : r.level = level))

\* A faulty summary, for comparison: its total leaves out the info issues.
SummaryWithoutInfo(filteredResults) ==
    [total |-> CountLevel(filteredResults, "error") + CountLevel(filteredResults, "warning"),
     errors |-> CountLevel(filteredResults, "error"),
     warnings |-> CountLevel(filteredResults, "warning"),
     info |-> CountLevel(filteredResults, "info")]

\* lines 444-449
Summary(filteredResults) ==
    [total |-> Len(filteredResults),
     errors |-> CountLevel(filteredResults, "error"),
     warnings |-> CountLevel(filteredResults, "warning"),
     info |-> CountLevel(filteredResults, "info")]

\* a destructuring default: d when the option is undefined
DefaultOf(v, d) == IF v.k = "undef" THEN d ELSE v

TopIssueCount == 10

\* lines 417-470 of runValidation: what it does with the results its
\* validators left in run. outcome is "returned" with the value returned, or
\* "TypeError" when the promise is rejected; spec and defs are the spec and
\* the definitions as the call leaves them; invoked and emitted are the
\* validators called and the issues pushed, in order.
Finish(run, spec, defs, options, ai) ==
    LET strategy == DefaultOf(options.strategy, Str("inline"))
        minSeverity == DefaultOf(options.minSeverity, Str("warning"))
        validators == DefaultOf(options.validators, Str("all"))
        fileName == DefaultOf(options.fileName, Str("api-spec.yaml"))
        enableAI == DefaultOf(options.enableAI, Bool(FALSE))
        filtered == filterBySeverity(run.results, minSeverity)
        useAI == Truthy(enableAI) /\ ai.enabled
        topIssues == SubSeq(filtered, 1, IF Len(filtered) < TopIssueCount
                                         THEN Len(filtered) ELSE TopIssueCount)
        filteredResults ==
            IF useAI
            THEN enhanceBatchWithAI(topIssues, ai)
                 \o SubSeq(filtered, TopIssueCount + 1, Len(filtered))
            ELSE filtered
        ended(outcome, value) ==
            [outcome |-> outcome, value |-> value, spec |-> run.spec, defs |-> run.defs,
             invoked |-> run.invoked, emitted |-> run.results]
    IN  IF run.threw THEN ended("TypeError", Null)
        ELSE IF useAI /\ IsNullish(spec) THEN ended("TypeError", Null)
        ELSE ended("returned",
                   [file |-> fileName,
                    strategy |-> strategy,
                    summary |-> Summary(filteredResults),
                    results |-> filteredResults,
                    metadata |-> [validatorsRun |-> Len(getValidatorsToRun(validators)),
                                  commonFieldsLoaded |-> getFieldCount(defs),
                                  aiEnhanced |-> useAI],
                    aiRecommendations |->
                        IF useAI THEN getGeneralRecommendations(spec, ai, Len(topIssues) + 1)
                        ELSE Null])

\* runValidation(apiSpec, options), lines 345-471, with the registry it reads
\* and what the AI service does meanwhile.
runValidation(spec, defs, map, options, ai) ==
    Finish(RunValidators(getValidatorsToRun(DefaultOf(options.validators, Str("all"))),
                         spec, defs, map),
           spec, defs, options, ai)

(***************************************************************************)
(* The model's inputs.                                                     *)
(***************************************************************************)
\*INPUTS-BEGIN
\* The parsed common.yaml the registry is loaded from: Status lists its enum
\* out of order and has no example; UserID has an example.
CommonYaml ==
    Obj(<< <<"components", Obj(<< <<"schemas", Obj(<<
        <<"Status", Obj(<< <<"type", Str("string")>>,
                           <<"enum", Arr(<<Str("open"), Str("closed")>>)>> >>)>>,
        <<"UserID", Obj(<< <<"type", Str("string")>>, <<"format", Str("uuid")>>,
                           <<"example", Str("u-1")>> >>)>>
    >>)>> >>)>> >>)

GoodText == Str("Describes it well.")
GoodInfo ==
    Obj(<< <<"title", Str("Pets")>>, <<"version", Str("1.0.0")>>,
           <<"description", GoodText>> >>)
JsonContent(schema) ==
    Obj(<< <<"application/json", Obj(<< <<"schema", schema>> >>)>> >>)
OkResponse == Obj(<< <<"description", GoodText>> >>)

\* A spec with nothing in it.
EmptySpec == Obj(<<>>)

\* One read-only resource, fully described: few issues.
PetSpec ==
    Obj(<< <<"openapi", Str("3.0.0")>>,
           <<"info", GoodInfo>>,
           <<"paths", Obj(<<
               <<"/pets/{petId}", Obj(<<
                   <<"get", Obj(<<
                       <<"summary", Str("Get a pet")>>,
                       <<"description", GoodText>>,
                       <<"parameters", Arr(<<
                           Obj(<< <<"name", Str("petId")>>, <<"in", Str("path")>>,
                                  <<"required", Bool(TRUE)>>,
                                  <<"description", GoodText>>,
                                  <<"schema", Obj(<< <<"type", Str("string")>> >>)>> >>) >>)>>,
                       <<"responses", Obj(<<
                           <<"200", Obj(<< <<"description", GoodText>>,
                                           <<"content", JsonContent(
                                               Obj(<< <<"$ref", Str("#/components/schemas/Pet")>> >>))>> >>)>>,
                           <<"404", OkResponse>> >>)>> >>)>> >>)>> >>)>>,
           <<"components", Obj(<< <<"schemas", Obj(<<
               <<"Pet", Obj(<< <<"type", Str("object")>>,
                               <<"required", Arr(<<Str("name")>>)>>,
                               <<"properties", Obj(<<
                                   <<"name", Obj(<< <<"type", Str("string")>>,
                                                    <<"description", GoodText>> >>)>> >>)>> >>)>>
           >>)>> >>)>> >>)

\* A collection whose operations break several rules at each severity.
OrderSpec ==
    Obj(<< <<"openapi", Str("2.0")>>,
           <<"info", Obj(<< <<"title", Str("Orders v2")>>, <<"version", Str("v2")>> >>)>>,
           <<"paths", Obj(<<
               <<"/orders", Obj(<<
                   <<"post", Obj(<<
                       <<"description", Str("creates")>>,
                       <<"requestBody", Obj(<<
                           <<"content", JsonContent(
                               Obj(<< <<"type", Str("object")>>,
                                      <<"properties", Obj(<<
                                          <<"user_i_d", Obj(<< <<"type", Str("integer")>> >>)>>
                                      >>)>> >>))>> >>)>>,
                       <<"responses", Obj(<<
                           <<"500", Obj(<<>>)>> >>)>> >>)>>,
                   <<"delete", Obj(<<
                       <<"responses", Obj(<<>>)>> >>)>> >>)>> >>)>>,
           <<"components", Obj(<< <<"schemas", Obj(<<
               <<"Order", Obj(<< <<"type", Str("object")>>,
                                 <<"required", Arr(<<Str("total")>>)>>,
                                 <<"properties", Obj(<<
                                     <<"id", Obj(<< <<"type", Str("string")>> >>)>>
                                 >>)>> >>)>> >>)>> >>)>> >>)

\* Properties named after the registry's Status: one lists the same enum
\* values in the registry's own order, one has another type.
TicketSpec ==
    Obj(<< <<"openapi", Str("3.0.0")>>,
           <<"info", GoodInfo>>,
           <<"components", Obj(<< <<"schemas", Obj(<<
               <<"Ticket", Obj(<< <<"type", Str("object")>>,
                                  <<"properties", Obj(<<
                                      <<"status", Obj(<<
                                          <<"type", Str("string")>>,
                                          <<"description", GoodText>>,
                                          <<"enum", Arr(<<Str("open"), Str("closed")>>)>> >>)>>
                                  >>)>> >>)>>,
               <<"Audit", Obj(<< <<"type", Str("object")>>,
                                 <<"properties", Obj(<<
                                     <<"Status", Obj(<<
                                         <<"type", Str("integer")>>,
                                         <<"description", GoodText>>,
                                         <<"enum", Arr(<<Str("open"), Str("closed")>>)>> >>)>>
                                 >>)>> >>)>> >>)>> >>)>> >>)

\* A spec that is a mapping, with one path /items whose get operation is op.
WithOperation(op) ==
    Obj(<< <<"openapi", Str("3.0.0")>>,
           <<"info", GoodInfo>>,
           <<"paths", Obj(<< <<"/items", Obj(<< <<"get", op>> >>)>> >>)>> >>)

NullOperationSpec == WithOperation(Null)
NoResponsesSpec == WithOperation(Obj(<< <<"description", GoodText>> >>))
NullResponseSpec ==
    WithOperation(Obj(<< <<"description", GoodText>>,
                         <<"responses", Obj(<< <<"200", Null>> >>)>> >>))
NullParameterSpec ==
    WithOperation(Obj(<< <<"description", GoodText>>,
                         <<"parameters", Arr(<<Null>>)>>,
                         <<"responses", Obj(<< <<"200", OkResponse>> >>)>> >>))
NullPropertySpec ==
    Obj(<< <<"openapi", Str("3.0.0")>>,
           <<"info", GoodInfo>>,
           <<"components", Obj(<< <<"schemas", Obj(<<
               <<"Item", Obj(<< <<"type", Str("object")>>,
                                <<"properties", Obj(<< <<"size", Null>> >>)>> >>)>>
           >>)>> >>)>> >>)
NumberVersionSpec ==
    Obj(<< <<"openapi", Str("3.0.0")>>,
           <<"info", Obj(<< <<"title", Str("Pets")>>, <<"version", Num(1)>>,
                            <<"description", GoodText>> >>)>> >>)
NumberOpenapiSpec ==
    Obj(<< <<"openapi", Num(3)>>, <<"info", GoodInfo>> >>)

\* Specs that are mappings at the top level but have a malformed or absent
\* part below it.
MalformedSpecs ==
    {NullOperationSpec, NoResponsesSpec, NullResponseSpec, NullParameterSpec,
     NullPropertySpec, NumberVersionSpec, NumberOpenapiSpec}

\* Values that are not a mapping at the top level.
NonMappingSpecs == {Null, Str("openapi"), Num(3), Arr(<<>>)}

WellFormedSpecs == {EmptySpec, PetSpec, OrderSpec, TicketSpec}

SpecSet == WellFormedSpecs \cup MalformedSpecs \cup NonMappingSpecs

\* options of a call: the fields the caller may set, undefined when left out
Options(minSeverity, validators, enableAI) ==
    [strategy |-> Undef, minSeverity |-> minSeverity, validators |-> validators,
     fileName |-> Undef, enableAI |-> enableAI, industry |-> Undef]

Severities == {Str("error"), Str("warning"), Str("info")}

OptionSet ==
    {Options(m, Str("all"), Undef) : m \in Severities}
    \cup {Options(Str("info"), Str("all"), Bool(TRUE))}
\* Specs and options for calls that select validators by name.
SelectionSpecs == {EmptySpec, PetSpec, OrderSpec, Null}

Names(list) == Arr([i \in 1..Len(list) |-> Str(list[i])])

ValidatorLists ==
    {Str("all"), Undef, Names(<<>>), Names(<<"unknown">>),
     Names(<<"descriptions">>), Names(<<"unknown", "security">>),
     Names(<<"security", "security">>),
     Names(<<"versioning", "descriptions">>), Names(<<"descriptions", "versioning">>)}

SelectionOptionSet ==
    {Options(Str("info"), v, Undef) : v \in ValidatorLists}
    \cup {Options(Str("warning"), v, Undef) :
            v \in {Names(<<"versioning", "descriptions">>),
                   Names(<<"descriptions", "versioning">>)}}

\* Other states of config/common.yaml: absent, unparsable, empty, a scalar,
\* without schemas, and with schemas under other names.
OtherYaml ==
    Obj(<< <<"components", Obj(<< <<"schemas", Obj(<<
        <<"CreatedAt", Obj(<< <<"type", Str("string")>>,
                              <<"format", Str("date-time")>> >>)>>,
        <<"Email", Obj(<< <<"type", Str("string")>>, <<"format", Str("email")>> >>)>>
    >>)>> >>)>> >>)

MalformedFiles ==
    {MissingFile, UnparsableFile, YamlFile(Undef), YamlFile(Null),
     YamlFile(Obj(<< <<"components", Null>> >>)),
     YamlFile(Obj(<< <<"schemas", Obj(<<>>)>> >>))}

CommonFiles == MalformedFiles \cup {YamlFile(CommonYaml), YamlFile(OtherYaml)}

\* The spellings of the canonical names of CommonYaml and OtherYaml, as the
\* registry module's comment gives them for UserID.
Spellings ==
    << [canonical |-> "Status", snake |-> "status", camel |-> "status"],
       [canonical |-> "UserID", snake |-> "user_id", camel |-> "userId"],
       [canonical |-> "CreatedAt", snake |-> "created_at", camel |-> "createdAt"],
       [canonical |-> "Email", snake |-> "email", camel |-> "email"] >>

FieldNames ==
    {Spellings[i].canonical : i \in 1..Len(Spellings)}
    \cup {Spellings[i].snake : i \in 1..Len(Spellings)}
    \cup {Spellings[i].camel : i \in 1..Len(Spellings)}
    \cup {"user_i_d", "userID", "USERID", "unknown"}

LoadSpecs == {EmptySpec, PetSpec, TicketSpec}

LoadOptionSet ==
    {Options(Str("info"), v, Undef) : v \in {Str("all"), Names(<<"commonFields">>)}}

\* Schemas for the walkers. A property schema with the description d, or
\* without one when d is undefined:
Described(d) ==
    IF d = Undef THEN Obj(<< <<"type", Str("string")>> >>)
    ELSE Obj(<< <<"type", Str("string")>>, <<"description", d>> >>)

\* descriptions: absent, empty, a number, valid, and every combination of
\* the three rules failing
Descriptions ==
    {Undef, Str(""), Num(2024), GoodText,
     Str("Short."), Str("Describes it well"), Str("Short"),
     Str("describes it well."), Str("short."), Str("describes it well"), Str("short")}
FewDescriptions == {Undef, GoodText, Str("short")}

Properties1(n1, s1) ==
    Obj(<< <<"type", Str("object")>>, <<"properties", Obj(<< <<n1, s1>> >>)>> >>)
Properties2(n1, s1, n2, s2) ==
    Obj(<< <<"type", Str("object")>>,
           <<"properties", Obj(<< <<n1, s1>>, <<n2, s2>> >>)>> >>)
ArrayOf(items) == Obj(<< <<"type", Str("array")>>, <<"items", items>> >>)
RefTo(name) == Obj(<< <<"$ref", Str(name)>> >>)

FlatSchemas ==
    {Properties1("name", Described(d)) : d \in Descriptions}
    \cup {Properties2("id", Described(d1), "name", Described(d2)) :
            d1 \in FewDescriptions, d2 \in Descriptions}

NestedSchemas ==
    UNION {{Properties2("id", Described(d1), "owner", Properties1("name", Described(d2))),
            Properties1("tags", ArrayOf(Properties1("label", Described(d2)))),
            Properties1("grid", ArrayOf(ArrayOf(Properties1("cell", Described(d2))))),
            ArrayOf(Properties1("name", Described(d2))),
            ArrayOf(ArrayOf(Properties2("id", Described(d1), "name", Described(d2)))),
            Obj(<< <<"allOf", Arr(<<RefTo("#/components/schemas/Other"),
                                    Properties1("name", Described(d2))>>)>> >>),
            Properties1("pet", Obj(<< <<"oneOf", Arr(<<Properties1("name", Described(d1)),
                                                       Properties1("label", Described(d2))>>)>> >>))
           } : d1 \in {Undef, GoodText}, d2 \in {Undef, GoodText}}

\* schemas whose $ref strings name the schema itself, or each other
RefSchemas ==
    {RefTo("#/components/schemas/Walked"),
     Properties2("name", Described(Undef), "parent", RefTo("#/components/schemas/Walked")),
     Properties1("children", ArrayOf(RefTo("#/components/schemas/Walked"))),
     Properties2("next", RefTo("#/components/schemas/Other"), "name", Described(GoodText))}

\* schemas that declare required: ["x"] (or more) against the properties
\* given, with or without type: object; properties Undef leaves the key out
Requiring(type, properties, required) ==
    Obj((IF type = Undef THEN <<>> ELSE << <<"type", type>> >>)
        \o (IF properties = Undef THEN <<>> ELSE << <<"properties", properties>> >>)
        \o << <<"required", Arr(Strs(required))>> >>)

RequiringSchemas ==
    {Requiring(type, properties, required) :
        type \in {Undef, Str("object")},
        properties \in {Undef, Obj(<<>>),
                        Obj(<< <<"name", Described(GoodText)>> >>),
                        Obj(<< <<"name", Described(GoodText)>>, <<"x", Described(GoodText)>> >>),
                        Obj(<< <<"id", Described(GoodText)>>, <<"name", Described(GoodText)>> >>)},
        required \in {<<"x">>, <<"name", "x">>, <<"name">>}}

WalkSchemas == FlatSchemas \cup NestedSchemas \cup RefSchemas \cup RequiringSchemas

\* a spec whose components.schemas holds the schema Walked, and the schema
\* Other that refers back to it
WalkSpec(schema) ==
    Obj(<< <<"openapi", Str("3.0.0")>>,
           <<"info", GoodInfo>>,
           <<"components", Obj(<< <<"schemas", Obj(<<
               <<"Walked", schema>>,
               <<"Other", RefTo("#/components/schemas/Walked")>> >>)>> >>)>> >>)

WalkSpecs == {WalkSpec(schema) : schema \in WalkSchemas}
Walkers == {"walkProperties", "walkSchema"}

\* Specs for the security validator: one operation /items.<method>, with a
\* top-level security list, an operation-level one and securitySchemes, each
\* left out when Undef.
SecuritySpec(method, globalSecurity, operationSecurity, securitySchemes) ==
    Obj(<< <<"openapi", Str("3.0.0")>>, <<"info", GoodInfo>> >>
        \o (IF globalSecurity = Undef THEN <<>> ELSE << <<"security", globalSecurity>> >>)
        \o << <<"paths", Obj(<< <<"/items", Obj(<< <<method,
                 Obj(<< <<"description", GoodText>> >>
                     \o (IF operationSecurity = Undef THEN <<>>
                         ELSE << <<"security", operationSecurity>> >>)
                     \o << <<"responses", Obj(<< <<"200", OkResponse>> >>)>> >>)>> >>)>> >>)>> >>
        \o (IF securitySchemes = Undef THEN <<>>
            ELSE << <<"components", Obj(<< <<"securitySchemes", securitySchemes>> >>)>> >>))

Requirement(schemeName) == Arr(<<Obj(<< <<schemeName, Arr(<<>>)>> >>)>>)
SecurityLists == {Undef, Arr(<<>>), Requirement("bearerAuth"), Requirement("apiKey")}
SchemeMaps ==
    {Undef, Obj(<< <<"bearerAuth", Obj(<< <<"type", Str("http")>>,
                                          <<"scheme", Str("bearer")>> >>)>> >>)}
MutatingMethods == {"post", "put", "patch", "delete"}

SecuritySpecs ==
    {SecuritySpec(method, g, o, schemes) :
        method \in MutatingMethods \cup {"get"},
        g \in SecurityLists, o \in SecurityLists, schemes \in SchemeMaps}

SecurityOptionSet ==
    {Options(m, Names(<<"security">>), Undef) : m \in {Str("info"), Str("warning")}}

\* Specs that differ in their openapi field, their info section and their
\* paths, each left out when Undef.
HeaderSpec(openapi, info, paths) ==
    Obj((IF openapi = Undef THEN <<>> ELSE << <<"openapi", openapi>> >>)
        \o (IF info = Undef THEN <<>> ELSE << <<"info", info>> >>)
        \o (IF paths = Undef THEN <<>> ELSE << <<"paths", paths>> >>))

OpenapiValues == {Undef, Str("3.0.3"), Str("3.1.0"), Str("2.0")}
InfoValues ==
    {Undef,
     Obj(<< <<"title", Str("Test")>> >>),
     Obj(<< <<"title", Str("Test")>>, <<"version", Str("1.0.0")>> >>),
     GoodInfo}
PathsValues ==
    {Undef,
     Obj(<< <<"/items", Obj(<< <<"get", Obj(<<
         <<"description", GoodText>>,
         <<"responses", Obj(<< <<"200", OkResponse>> >>)>> >>)>> >>)>> >>),
     Obj(<< <<"/items", Obj(<< <<"get", Obj(<<
         <<"description", GoodText>>,
         <<"parameters", Arr(<<Obj(<< <<"name", Str("limit")>>,
                                      <<"in", Str("query")>> >>)>>)>>,
         <<"responses", Obj(<< <<"200", OkResponse>> >>)>> >>)>> >>)>> >>)}

HeaderSpecs ==
    {HeaderSpec(openapi, info, paths) :
        openapi \in OpenapiValues, info \in InfoValues, paths \in PathsValues}

HeaderOptionSet ==
    {Options(Undef, Names(<<name>>), Undef) : name \in {"versioning", "descriptions"}}

\* Operations that differ in their responses: no responses key, an empty
\* mapping, success only, and an error response with or without description
\* whose body is absent, a $ref to a component schema, or an inline schema.
ErrorSchemaRef == RefTo("#/components/schemas/ErrorResponse")
InlineWith(fieldName) ==
    Obj(<< <<"type", Str("object")>>,
           <<"properties", Obj(<< <<fieldName, Obj(<< <<"type", Str("string")>> >>)>> >>)>> >>)
ErrorBodies ==
    {Undef, ErrorSchemaRef, InlineWith("error"), InlineWith("message"),
     InlineWith("errors"), InlineWith("code")}
ResponseOf(description, schema) ==
    Obj((IF description = Undef THEN <<>> ELSE << <<"description", description>> >>)
        \o (IF schema = Undef THEN <<>> ELSE << <<"content", JsonContent(schema)>> >>))
ErrorResponses == {ResponseOf(d, s) : d \in {Undef, Str("Invalid request data")}, s \in ErrorBodies}
ErrorCodes == {"400", "500"}
ResponseMaps ==
    {Undef, Obj(<<>>), Obj(<< <<"200", OkResponse>> >>)}
    \cup {Obj(<< <<"201", ResponseOf(Str("Booking created successfully"),
                                     RefTo("#/components/schemas/Booking"))>>,
                 <<code, r>> >>) : code \in ErrorCodes, r \in ErrorResponses}
    \cup {Obj(<< <<code, r>> >>) : code \in ErrorCodes, r \in ErrorResponses}
ResponseSpec(method, responses) ==
    Obj(<< <<"openapi", Str("3.0.0")>>, <<"info", GoodInfo>>,
           <<"paths", Obj(<< <<"/bookings", Obj(<< <<method,
               Obj(<< <<"description", GoodText>> >>
                   \o (IF responses = Undef THEN <<>>
                       ELSE << <<"responses", responses>> >>))>> >>)>> >>)>>,
           <<"components", Obj(<< <<"schemas", Obj(<<
               <<"Booking", InlineWith("id")>>,
               <<"ErrorResponse", InlineWith("error")>> >>)>> >>)>> >>)
ResponseSpecs == {ResponseSpec(method, r) : method \in {"get", "post"}, r \in ResponseMaps}
ResponseOptionSet ==
    {Options(Str("info"), Names(<<name>>), Undef) : name \in {"errorResponses", "responseSchemas"}}

\* A registry whose definitions use every keyword validateFieldMatch compares.
FieldsYaml ==
    Obj(<< <<"components", Obj(<< <<"schemas", Obj(<<
        <<"Status", Obj(<< <<"type", Str("string")>>,
                           <<"enum", Arr(<<Str("closed"), Str("open")>>)>> >>)>>,
        <<"Code", Obj(<< <<"type", Str("string")>>,
                         <<"pattern", Str("^[A-Z]+$")>>,
                         <<"minLength", Num(2)>>,
                         <<"maxLength", Num(8)>>,
                         <<"example", Str("AB")>> >>)>>,
        <<"UserID", Obj(<< <<"type", Str("string")>>, <<"format", Str("uuid")>>,
                           <<"example", Str("u-1")>> >>)>>
    >>)>> >>)>> >>)

\* Property schemas that agree with a definition of FieldsYaml or differ from
\* it in one or more keywords; an enum may list its values in another order
\* or more than once.
Keyword(key, value) == IF value = Undef THEN <<>> ELSE << <<key, value>> >>
PropertySchema(type, format, pattern, minLength, maxLength, enum) ==
    Obj(Keyword("type", type) \o Keyword("format", format) \o Keyword("pattern", pattern)
        \o Keyword("minLength", minLength) \o Keyword("maxLength", maxLength)
        \o Keyword("enum", enum))
EnumLists ==
    {Undef,
     Arr(<<Str("closed"), Str("open")>>),
     Arr(<<Str("open"), Str("closed")>>),
     Arr(<<Str("open"), Str("open"), Str("closed")>>),
     Arr(<<Str("open")>>),
     Arr(<<Str("open"), Str("pending")>>)}
StatusSchemas ==
    {PropertySchema(type, format, Undef, Undef, Undef, enum) :
        type \in {Str("string"), Str("integer")}, format \in {Undef, Str("uuid")},
        enum \in EnumLists}
CodeSchemas ==
    {PropertySchema(Str("string"), Undef, pattern, minLength, maxLength, Undef) :
        pattern \in {Undef, Str("^[A-Z]+$"), Str("^[a-z]+$")},
        minLength \in {Undef, Num(2), Num(3)},
        maxLength \in {Undef, Num(8), Num(9)}}
UserIdSchemas ==
    {PropertySchema(type, format, pattern, Undef, Undef, Undef) :
        type \in {Str("string"), Str("integer")},
        format \in {Undef, Str("uuid"), Str("email")},
        pattern \in {Undef, Str("^[a-z]+$")}}
NamedProperties ==
    {<<"status", s>> : s \in StatusSchemas}
    \cup {<<"Code", s>> : s \in CodeSchemas}
    \cup {<<"userId", s>> : s \in UserIdSchemas}
    \cup {<<"title", s>> : s \in UserIdSchemas}
FieldSpec(property) ==
    Obj(<< <<"openapi", Str("3.0.0")>>, <<"info", GoodInfo>>,
           <<"components", Obj(<< <<"schemas", Obj(<<
               <<"Thing", Obj(<< <<"type", Str("object")>>,
                                 <<"properties", Obj(<<property>>)>> >>)>> >>)>> >>)>> >>)
FieldSpecs == {FieldSpec(property) : property \in NamedProperties}
FieldOptionSet == {Options(Str("info"), Names(<<"commonFields">>), Undef)}

\* One get operation with one parameter, on a path with or without a
\* placeholder.
Parameter(name, in, required, schema, description) ==
    Obj(<< <<"name", Str(name)>>, <<"in", Str(in)>> >>
        \o Keyword("required", required) \o Keyword("schema", schema)
        \o Keyword("description", description))
Parameters ==
    {Parameter(name, in, required, schema, description) :
        name \in {"itemId", "other"}, in \in {"path", "query"},
        required \in {Undef, Bool(TRUE), Bool(FALSE), Str("true")},
        schema \in {Undef, Obj(<< <<"type", Str("string")>> >>)},
        description \in {Undef, GoodText}}
ParameterSpec(pathName, parameter) ==
    Obj(<< <<"openapi", Str("3.0.0")>>, <<"info", GoodInfo>>,
           <<"paths", Obj(<< <<pathName, Obj(<< <<"get", Obj(<<
               <<"description", GoodText>>,
               <<"parameters", Arr(<<parameter>>)>>,
               <<"responses", Obj(<< <<"200", OkResponse>> >>)>> >>)>> >>)>> >>)>> >>)
PathTemplates == {"/items", "/items/{itemId}"}
ParameterSpecs ==
    {ParameterSpec(pathName, parameter) : pathName \in PathTemplates, parameter \in Parameters}
ParameterOptionSet ==
    {Options(minSeverity, Names(<<"pathParameters">>), Undef) :
        minSeverity \in {Str("info"), Str("warning")}}

\* Specs that differ in the schemas components.schemas defines and in the
\* references made from a response and from the schemas themselves.
PlainSchema == InlineWith("name")
SchemaWith(ref) ==
    Obj(<< <<"type", Str("object")>>,
           <<"properties", Obj(<< <<"owner", RefTo(ref)>> >>)>> >>)
DefinedMaps ==
    {Undef,
     Obj(<< <<"Pet", PlainSchema>> >>),
     Obj(<< <<"Owner", PlainSchema>> >>),
     Obj(<< <<"Pet", PlainSchema>>, <<"Owner", PlainSchema>> >>),
     Obj(<< <<"Pet", SchemaWith("#/components/schemas/Owner")>>, <<"Owner", PlainSchema>> >>),
     Obj(<< <<"Pet", SchemaWith("#/components/schemas/Pet")>> >>)}
RefLists ==
    {<<>>,
     <<"#/components/schemas/Pet">>,
     <<"#/components/schemas/Ghost">>,
     <<"#/components/schemas/Pet", "#/components/schemas/Pet">>,
     <<"#/components/schemas/Ghost", "#/components/schemas/Owner",
       "#/components/schemas/Ghost">>,
     <<"other.yaml#/components/schemas/Owner">>,
     <<"#/components/parameters/Pet">>}
ComponentSpec(schemas, refs) ==
    Obj(<< <<"openapi", Str("3.0.0")>>, <<"info", GoodInfo>>,
           <<"paths", Obj(<< <<"/pets", Obj(<< <<"get", Obj(<<
               <<"description", GoodText>>,
               <<"responses", Obj(<< <<"200", Obj(<<
                   <<"description", GoodText>>,
                   <<"content", JsonContent(Obj(<<
                       <<"oneOf", Arr([i \in 1..Len(refs) |-> RefTo(refs[i])])>>
                   >>))>> >>)>> >>)>> >>)>> >>)>> >>)>> >>
        \o (IF schemas = Undef THEN <<>>
            ELSE << <<"components", Obj(<< <<"schemas", schemas>> >>)>> >>))
ComponentSpecs == {ComponentSpec(schemas, refs) : schemas \in DefinedMaps, refs \in RefLists}
ComponentOptionSet ==
    {Options(minSeverity, Names(<<"components">>), Undef) : minSeverity \in Severities}
SchemaNames == {"Pet", "Owner", "Ghost"}

\* Path items that hold, beside a get operation, one key that is not an HTTP
\* method.
PathLevelEntries ==
    {<<"parameters", Arr(<<Parameter("limit", "query", Undef,
                                     Obj(<< <<"type", Str("integer")>> >>), GoodText)>>)>>,
     <<"servers", Arr(<<Obj(<< <<"url", Str("https://api.example.com")>> >>)>>)>>,
     <<"summary", Str("Items")>>,
     <<"x-internal", Bool(TRUE)>>,
     <<"x-owner", Obj(<< <<"team", Str("core")>> >>)>>,
     <<"post", Obj(<< <<"description", GoodText>>,
                      <<"responses", Obj(<< <<"201", OkResponse>>, <<"400", OkResponse>>,
                                            <<"500", OkResponse>> >>)>> >>)>>}
PathItemSpec(entry, security) ==
    Obj(<< <<"openapi", Str("3.0.0")>>, <<"info", GoodInfo>> >>
        \o Keyword("security", security)
        \o << <<"paths", Obj(<< <<"/items", Obj(<<
                 entry,
                 <<"get", Obj(<< <<"description", GoodText>>,
                                 <<"responses", Obj(<< <<"200", OkResponse>>,
                                                       <<"404", OkResponse>>,
                                                       <<"500", OkResponse>> >>)>> >>)>>
              >>)>> >>)>> >>)
PathItemSpecs ==
    {PathItemSpec(entry, security) :
        entry \in PathLevelEntries, security \in {Undef, Requirement("bearerAuth")}}
OperationValidators ==
    {"descriptions", "errorResponses", "security", "responseSchemas", "httpMethods"}
PathItemOptionSet ==
    {Options(Str("info"), Names(<<name>>), Undef) : name \in OperationValidators}

\* Environments: no variable set, one variable set (to its default or to
\* another value), or all of them set; and config.yaml files.
EnvAssignments ==
    {<<"GEMINI_API_KEY", "k-123">>, <<"GEMINI_MODEL", "gemini-pro">>,
     <<"GEMINI_TEMPERATURE", "0.2">>, <<"GEMINI_TEMPERATURE", "0.7">>,
     <<"GEMINI_MAX_TOKENS", "1024">>, <<"GEMINI_MAX_TOKENS", "8192">>,
     <<"VALIDATION_STRATEGY", "strict">>, <<"MIN_SEVERITY", "error">>,
     <<"FAIL_ON_ERROR", "true">>, <<"FAIL_ON_ERROR", "false">>,
     <<"OUTPUT_FORMAT", "json">>, <<"COLORIZE", "false">>, <<"VERBOSE", "true">>,
     <<"PORT", "8080">>, <<"PORT", "3000">>, <<"HOST", "0.0.0.0">>,
     <<"CORS_ENABLED", "false">>}
FullEnvironment ==
    Obj(<< <<"GEMINI_API_KEY", Str("k-123")>>, <<"GEMINI_MODEL", Str("gemini-pro")>>,
           <<"GEMINI_TEMPERATURE", Str("0.2")>>, <<"GEMINI_MAX_TOKENS", Str("1024")>>,
           <<"VALIDATION_STRATEGY", Str("strict")>>, <<"MIN_SEVERITY", Str("error")>>,
           <<"FAIL_ON_ERROR", Str("true")>>, <<"OUTPUT_FORMAT", Str("json")>>,
           <<"COLORIZE", Str("false")>>, <<"VERBOSE", Str("true")>>,
           <<"PORT", Str("8080")>>, <<"HOST", Str("0.0.0.0")>>,
           <<"CORS_ENABLED", Str("false")>> >>)
Environments ==
    {EmptyObj, FullEnvironment}
    \cup {Obj(<< <<a[1], Str(a[2])>> >>) : a \in EnvAssignments}
ConfigFiles ==
    {MissingFile, UnparsableFile, YamlFile(Null), YamlFile(EmptyObj),
     YamlFile(Obj(<< <<"ai", Obj(<< <<"gemini", Obj(<<
         <<"apiKey", Str("k-file")>>,
         <<"model", Str("gemini-1.5-pro")>>,
         <<"temperature", Float(0, <<"5">>)>>,
         <<"maxTokens", Num(2048)>> >>)>> >>)>> >>)),
     YamlFile(Obj(<< <<"validation", Obj(<<
         <<"defaultStrategy", Str("registry")>>,
         <<"minSeverity", Str("info")>>,
         <<"failOnError", Bool(TRUE)>> >>)>> >>)),
     YamlFile(Obj(<< <<"output", Obj(<< <<"format", Str("summary")>>,
                                        <<"colorize", Bool(TRUE)>>,
                                        <<"verbose", Bool(FALSE)>> >>)>>,
                     <<"server", Obj(<< <<"port", Num(9090)>>,
                                        <<"host", Str("example.org")>>,
                                        <<"corsEnabled", Bool(TRUE)>> >>)>> >>))}

\* Issue lists handed to enhanceBatchWithAI, and the values of maxConcurrent.
Issue(name) ==
    [level |-> "warning", message |-> <<"Issue ", name>>, location |-> <<"paths">>,
     suggestion |-> Text(<<"Fix ", name>>), validator |-> Undef]
FiveIssues == <<Issue("a"), Issue("b"), Issue("c"), Issue("d"), Issue("e")>>
IssueLists == {SubSeq(FiveIssues, 1, n) : n \in {0, 1, 2, 4, 5}}
MaxConcurrentDefault == 3
MaxConcurrentValues == 1..MaxConcurrentDefault
\*INPUTS-END

(***************************************************************************)
(* The state machine: a caller holds one parsed spec and calls             *)
(* runValidation on it again and again, with options of its choice.        *)
(***************************************************************************)
NoCall == [outcome |-> "none"]

Init ==
    /\ apiSpec \in SpecSet
    /\ \E registry \in {LoadRegistry(CommonYaml)} :
          /\ commonFieldDefinitions = registry.defs
          /\ commonFieldMap = registry.map
    /\ call = NoCall
    /\ previous = NoCall
    /\ commonYaml = YamlFile(CommonYaml)
    /\ process = "running"

RunValidation(options, ai) ==
    \E r \in {runValidation(apiSpec, commonFieldDefinitions, commonFieldMap, options, ai)} :
        /\ process = "running"
        /\ apiSpec' = r.spec
        /\ commonFieldDefinitions' = r.defs
        /\ UNCHANGED <<commonFieldMap, commonYaml, process>>
        /\ call' = [options |-> options, ai |-> ai, outcome |-> r.outcome, value |-> r.value,
                    invoked |-> r.invoked, emitted |-> r.emitted,
                    specBefore |-> apiSpec, definitionsBefore |-> commonFieldDefinitions]
        /\ previous' = call

\* The requests that the service rejects during a call: none, the first, the
\* second and third, the one for the general recommendations after a full
\* batch of top issues, or all of them.
RequestSets == {{}, {1}, {2, 3}, {TopIssueCount + 1}, 1..(TopIssueCount + 1)}
AiServices == {AiDisabled} \cup {AiService(failing) : failing \in RequestSets}

\* what the AI service does matters only to a call that enables AI
AiChoices(options) == IF Truthy(options.enableAI) THEN AiServices ELSE {AiDisabled}

Next == \E options \in OptionSet : \E ai \in AiChoices(options) : RunValidation(options, ai)

Spec == Init /\ [][Next]_vars

(***************************************************************************)
(* The same caller, choosing among lists of validator names.               *)
(***************************************************************************)
InitSelection ==
    /\ apiSpec \in SelectionSpecs
    /\ \E registry \in {LoadRegistry(CommonYaml)} :
          /\ commonFieldDefinitions = registry.defs
          /\ commonFieldMap = registry.map
    /\ call = NoCall
    /\ previous = NoCall
    /\ commonYaml = YamlFile(CommonYaml)
    /\ process = "running"

NextSelection == \E options \in SelectionOptionSet : RunValidation(options, AiDisabled)

SpecSelection == InitSelection /\ [][NextSelection]_vars

(***************************************************************************)
(* The registry module loaded from config/common.yaml in any state, then   *)
(* asked for fields and consulted by runValidation.                        *)
(***************************************************************************)
InitLoad ==
    /\ apiSpec \in LoadSpecs
    /\ commonYaml \in CommonFiles
    /\ \E loaded \in {loadCommonFields(commonYaml)} :
          /\ process = loaded.process
          /\ commonFieldDefinitions = loaded.defs
          /\ commonFieldMap = loaded.map
    /\ call = NoCall
    /\ previous = NoCall

GetField(fieldName) ==
    /\ process = "running"
    /\ call' = [outcome |-> "field", fieldName |-> fieldName,
                value |-> getField(commonFieldDefinitions, commonFieldMap, fieldName)]
    /\ previous' = call
    /\ UNCHANGED <<apiSpec, commonFieldDefinitions, commonFieldMap, commonYaml, process>>

NextLoad ==
    \/ \E options \in LoadOptionSet : RunValidation(options, AiDisabled)
    \/ \E fieldName \in FieldNames : GetField(fieldName)

SpecLoad == InitLoad /\ [][NextLoad]_vars

(***************************************************************************)
(* The schema walkers applied to the schemas of components.schemas, as     *)
(* validateDescriptions and validateCommonFields apply them, with a        *)
(* callback that records its arguments; and the description validator or  *)
(* the required-fields validator run on the same spec.                     *)
(***************************************************************************)
InitWalk ==
    /\ apiSpec \in WalkSpecs
    /\ \E registry \in {LoadRegistry(CommonYaml)} :
          /\ commonFieldDefinitions = registry.defs
          /\ commonFieldMap = registry.map
    /\ call = NoCall
    /\ previous = NoCall
    /\ commonYaml = YamlFile(CommonYaml)
    /\ process = "running"

\* walker(schema, callback) on the schema at index i of components.schemas
Walk(walker, i) ==
    \E r \in {IF walker = "walkProperties"
               THEN walkProperties(ValueAt(SchemasOf(apiSpec), i), <<>>, <<>>)
               ELSE walkSchema(ValueAt(SchemasOf(apiSpec), i), <<>>, <<>>)} :
        /\ apiSpec' = SpecAfter(apiSpec, r.eff, 1)
        /\ call' = [outcome |-> "walked", walker |-> walker,
                    schemaName |-> KeyAt(SchemasOf(apiSpec), i),
                    schema |-> ValueAt(SchemasOf(apiSpec), i),
                    visits |-> r.out, threw |-> r.threw, eff |-> r.eff,
                    specBefore |-> apiSpec]
        /\ previous' = call
        /\ UNCHANGED <<commonFieldDefinitions, commonFieldMap, commonYaml, process>>

NextWalk ==
    \/ \E walker \in Walkers : \E i \in 1..KeyCount(SchemasOf(apiSpec)) : Walk(walker, i)
    \/ \E name \in {"descriptions", "requiredFields"} :
          RunValidation(Options(Str("info"), Names(<<name>>), Undef), AiDisabled)

SpecWalk == InitWalk /\ [][NextWalk]_vars

(***************************************************************************)
(* The security validator run on specs with one operation.                 *)
(***************************************************************************)
InitSecurity ==
    /\ apiSpec \in SecuritySpecs
    /\ \E registry \in {LoadRegistry(CommonYaml)} :
          /\ commonFieldDefinitions = registry.defs
          /\ commonFieldMap = registry.map
    /\ call = NoCall
    /\ previous = NoCall
    /\ commonYaml = YamlFile(CommonYaml)
    /\ process = "running"

NextSecurity == \E options \in SecurityOptionSet : RunValidation(options, AiDisabled)

SpecSecurity == InitSecurity /\ [][NextSecurity]_vars

(***************************************************************************)
(* The versioning validator or the description validator run, with the     *)
(* default minSeverity, on specs that differ in openapi, info and paths.   *)
(***************************************************************************)
InitHeader ==
    /\ apiSpec \in HeaderSpecs
    /\ \E registry \in {LoadRegistry(CommonYaml)} :
          /\ commonFieldDefinitions = registry.defs
          /\ commonFieldMap = registry.map
    /\ call = NoCall
    /\ previous = NoCall
    /\ commonYaml = YamlFile(CommonYaml)
    /\ process = "running"

NextHeader == \E options \in HeaderOptionSet : RunValidation(options, AiDisabled)

SpecHeader == InitHeader /\ [][NextHeader]_vars

(***************************************************************************)
(* The error responses validator or the response schemas validator run on  *)
(* specs with one operation that differ in the operation's responses.      *)
(***************************************************************************)
InitResponses ==
    /\ apiSpec \in ResponseSpecs
    /\ \E registry \in {LoadRegistry(CommonYaml)} :
          /\ commonFieldDefinitions = registry.defs
          /\ commonFieldMap = registry.map
    /\ call = NoCall
    /\ previous = NoCall
    /\ commonYaml = YamlFile(CommonYaml)
    /\ process = "running"

NextResponses == \E options \in ResponseOptionSet : RunValidation(options, AiDisabled)

SpecResponses == InitResponses /\ [][NextResponses]_vars

(***************************************************************************)
(* The common fields validator run on specs with one schema property,      *)
(* against a registry loaded from FieldsYaml.                              *)
(***************************************************************************)
InitFields ==
    /\ apiSpec \in FieldSpecs
    /\ \E registry \in {LoadRegistry(FieldsYaml)} :
          /\ commonFieldDefinitions = registry.defs
          /\ commonFieldMap = registry.map
    /\ call = NoCall
    /\ previous = NoCall
    /\ commonYaml = YamlFile(FieldsYaml)
    /\ process = "running"

NextFields == \E options \in FieldOptionSet : RunValidation(options, AiDisabled)

SpecFields == InitFields /\ [][NextFields]_vars

(***************************************************************************)
(* The path parameters validator run on specs with one operation that      *)
(* declares one parameter.                                                 *)
(***************************************************************************)
InitParameters ==
    /\ apiSpec \in ParameterSpecs
    /\ \E registry \in {LoadRegistry(CommonYaml)} :
          /\ commonFieldDefinitions = registry.defs
          /\ commonFieldMap = registry.map
    /\ call = NoCall
    /\ previous = NoCall
    /\ commonYaml = YamlFile(CommonYaml)
    /\ process = "running"

NextParameters == \E options \in ParameterOptionSet : RunValidation(options, AiDisabled)

SpecParameters == InitParameters /\ [][NextParameters]_vars

(***************************************************************************)
(* The components validator run on specs that differ in the schemas they   *)
(* define and reference.                                                   *)
(***************************************************************************)
InitComponents ==
    /\ apiSpec \in ComponentSpecs
    /\ \E registry \in {LoadRegistry(CommonYaml)} :
          /\ commonFieldDefinitions = registry.defs
          /\ commonFieldMap = registry.map
    /\ call = NoCall
    /\ previous = NoCall
    /\ commonYaml = YamlFile(CommonYaml)
    /\ process = "running"

NextComponents == \E options \in ComponentOptionSet : RunValidation(options, AiDisabled)

SpecComponents == InitComponents /\ [][NextComponents]_vars

(***************************************************************************)
(* The validators that look at operations, run one at a time on specs      *)
(* whose path item holds a key that is not an HTTP method.                 *)
(***************************************************************************)
InitPathItem ==
    /\ apiSpec \in PathItemSpecs
    /\ \E registry \in {LoadRegistry(CommonYaml)} :
          /\ commonFieldDefinitions = registry.defs
          /\ commonFieldMap = registry.map
    /\ call = NoCall
    /\ previous = NoCall
    /\ commonYaml = YamlFile(CommonYaml)
    /\ process = "running"

NextPathItem == \E options \in PathItemOptionSet : RunValidation(options, AiDisabled)

SpecPathItem == InitPathItem /\ [][NextPathItem]_vars

(***************************************************************************)
(* The configuration manager constructed in a process with an environment  *)
(* and a config.yaml file.                                                 *)
(***************************************************************************)
InitConfig ==
    /\ apiSpec = EmptySpec
    /\ \E registry \in {LoadRegistry(CommonYaml)} :
          /\ commonFieldDefinitions = registry.defs
          /\ commonFieldMap = registry.map
    /\ call = NoCall
    /\ previous = NoCall
    /\ commonYaml = YamlFile(CommonYaml)
    /\ process = "running"

\* const configManager = new ConfigManager(), once when the module is
\* loaded: this.config = this.loadConfig()
LoadConfig(env, file) ==
    /\ process = "running"
    /\ call = NoCall
    /\ call' = [outcome |-> "configured", env |-> env, file |-> file,
                config |-> loadConfig(env, file)]
    /\ previous' = call
    /\ UNCHANGED <<apiSpec, commonFieldDefinitions, commonFieldMap, commonYaml, process>>

NextConfig == \E env \in Environments : \E file \in ConfigFiles : LoadConfig(env, file)

SpecConfig == InitConfig /\ [][NextConfig]_vars

(***************************************************************************)
(* enhanceBatchWithAI step by step: the call runs until its first await    *)
(* with the requests of the first batch started; each request completes on *)
(* its own, by a response, an error or the timeout; when the last of a     *)
(* batch has completed the call resumes after `await Promise.all`.         *)
(***************************************************************************)
\* how callGeminiAPI's promise settles: resolved with the text of the answer,
\* rejected on an error of the request or of its response, rejected on the
\* timeout of the request
CallOutcomes == {"resolved", "failed", "timed out"}

\* the message of the rejection (lines 108 and 113)
RejectionMessage(how) ==
    IF how = "timed out" THEN "Gemini API request timed out"
    ELSE "Gemini API request failed: error.message"

\* not yet settled, in the place of a result
NoResult == [pending |-> TRUE]

\* A batch that holds every remaining issue, for comparison.
RestOfIssues(issues, start, maxConcurrent) == start..Len(issues)

\* lines 206-208: issues.slice(i, i + maxConcurrent), as the indices (from 1)
\* of the issues of the batch that starts at index start
BatchAt(issues, start, maxConcurrent) ==
    start..(IF start + maxConcurrent - 1 < Len(issues)
            THEN start + maxConcurrent - 1 ELSE Len(issues))

\* lines 129-152 after the await: the issue with the answer or with the error
Enhanced(issue, request, how) ==
    IF how = "resolved" THEN enhanceWithAI(issue, AiService({}), request)
    ELSE [enhanceWithAI(issue, AiService({request}), request)
            EXCEPT !.ai_error = RejectionMessage(how)]

InitBatch ==
    /\ apiSpec = EmptySpec
    /\ \E registry \in {LoadRegistry(CommonYaml)} :
          /\ commonFieldDefinitions = registry.defs
          /\ commonFieldMap = registry.map
    /\ call = NoCall
    /\ previous = NoCall
    /\ commonYaml = YamlFile(CommonYaml)
    /\ process = "running"

\* lines 197-212: the call up to its first await. Without AI or without
\* issues it returns the issues; otherwise batch.map(enhanceWithAI) has
\* started one request for each issue of the first batch.
EnhanceBatch(issues, enabled, maxConcurrent) ==
    /\ process = "running"
    /\ call = NoCall
    /\ call' = IF ~enabled \/ Len(issues) = 0
               THEN [outcome |-> "enhanced", issues |-> issues, enabled |-> enabled,
                     maxConcurrent |-> maxConcurrent, start |-> 1, started |-> {},
                     pending |-> {}, settled |-> [i \in 1..Len(issues) |-> NoResult],
                     results |-> issues]
               ELSE [outcome |-> "enhancing", issues |-> issues, enabled |-> enabled,
                     maxConcurrent |-> maxConcurrent, start |-> 1,
                     started |-> BatchAt(issues, 1, maxConcurrent),
                     pending |-> BatchAt(issues, 1, maxConcurrent),
                     settled |-> [i \in 1..Len(issues) |-> NoResult],
                     results |-> <<>>]
    /\ previous' = call
    /\ UNCHANGED <<apiSpec, commonFieldDefinitions, commonFieldMap, commonYaml, process>>

\* lines 81-113 and 137-151: the request made for issue i completes and
\* enhanceWithAI resumes with the answer or in its catch block
RequestCompletes(i, how) ==
    /\ call.outcome = "enhancing"
    /\ i \in call.pending
    /\ call' = [call EXCEPT !.pending = @ \ {i},
                            !.settled[i] = Enhanced(call.issues[i], i, how)]
    /\ UNCHANGED <<apiSpec, commonFieldDefinitions, commonFieldMap, previous,
                   commonYaml, process>>

\* lines 210-221: Promise.all has resolved; the batch's results are pushed in
\* the order of its issues, then the next batch's requests are started or,
\* after the last batch, the results are returned
ResumeAfterBatch ==
    /\ call.outcome = "enhancing"
    /\ call.pending = {}
    /\ \E batch \in {BatchAt(call.issues, call.start, call.maxConcurrent)} :
       \E results \in {call.results \o [k \in 1..Cardinality(batch) |->
                                          call.settled[call.start + k - 1]]} :
          call' = IF call.start + call.maxConcurrent > Len(call.issues)
                  THEN [call EXCEPT !.outcome = "enhanced", !.results = results]
                  ELSE [call EXCEPT
                          !.results = results,
                          !.start = call.start + call.maxConcurrent,
                          !.started = @ \cup BatchAt(call.issues,
                                                     call.start + call.maxConcurrent,
                                                     call.maxConcurrent),
                          !.pending = BatchAt(call.issues, call.start + call.maxConcurrent,
                                              call.maxConcurrent)]
    /\ UNCHANGED <<apiSpec, commonFieldDefinitions, commonFieldMap, previous,
                   commonYaml, process>>

Settle == \E i \in 1..Len(FiveIssues) : \E how \in CallOutcomes : RequestCompletes(i, how)

NextBatch ==
    \/ \E issues \in IssueLists : \E enabled \in BOOLEAN :
       \E maxConcurrent \in MaxConcurrentValues : EnhanceBatch(issues, enabled, maxConcurrent)
    \/ Settle
    \/ ResumeAfterBatch

SpecBatch == InitBatch /\ [][NextBatch]_vars

\* Every request completes: its response ends, its socket fails, or the
\* timeout set on it (GEMINI_CONFIG.timeout) fires; and the event loop runs
\* the continuation of a resolved await.
SpecBatchLive == SpecBatch /\ WF_vars(Settle) /\ WF_vars(ResumeAfterBatch)

(***************************************************************************)
(* Properties                                                              *)
(***************************************************************************)
Returned == call.outcome = "returned"
BothReturned == call.outcome = "returned" /\ previous.outcome = "returned"

\* what an issue list says: level, message, location and suggestion of each issue
Content(list) ==
    [i \in 1..Len(list) |->
        <<list[i].level, list[i].message, list[i].location, list[i].suggestion>>]

\* short matched into long from the left: whether all of short was found in
\* order, and the elements of long that were passed over
RECURSIVE Leftover(_, _)
Leftover(short, long) ==
    IF short = <<>> THEN [found |-> TRUE, rest |-> long]
    ELSE IF long = <<>> THEN [found |-> FALSE, rest |-> <<>>]
    ELSE IF Head(short) = Head(long) THEN Leftover(Tail(short), Tail(long))
    ELSE LET l == Leftover(short, Tail(long))
         IN  [found |-> l.found, rest |-> <<Head(long)>> \o l.rest]

\* the levels at least as severe as minSeverity
AtLeastAsSevere(minSeverity) ==
    CASE minSeverity = Str("error") -> {"error"}
      [] minSeverity = Str("warning") -> {"error", "warning"}
      [] minSeverity = Str("info") -> {"error", "warning", "info"}

\* C1: for minSeverity X in {error, warning, info}, the issue list returned is
\* exactly the emitted issues that are at least as severe as X, in order: only
\* errors for X = error, errors and warnings for X = warning, all for X = info.
C1_FilterKeepsExactlyAtLeastAsSevere ==
    (Returned /\ call.options.minSeverity \in Severities) =>
        Content(call.value.results)
          = Content(SelectSeq(call.emitted,
                LAMBDA r : r.level \in AtLeastAsSevere(call.options.minSeverity)))

\* the issue list of the one of the last two calls that had minSeverity m
ListAt(m) ==
    IF call.options.minSeverity = m THEN Content(call.value.results)
    ELSE Content(previous.value.results)

\* the last two calls had the minSeverity values lo and hi, and the same validators
SeverityPair(lo, hi) ==
    /\ BothReturned
    /\ call.options.validators = previous.options.validators
    /\ {previous.options.minSeverity, call.options.minSeverity} = {lo, hi}

\* C2: on one spec, the list returned with minSeverity=info is at least as long
\* as the one with warning, which is at least as long as the one with error;
\* and the warning list is the error list plus zero or more issues that are
\* all of level warning.
C2_SeverityMonotone ==
    /\ SeverityPair(Str("warning"), Str("info")) =>
          Len(ListAt(Str("info"))) >= Len(ListAt(Str("warning")))
    /\ SeverityPair(Str("error"), Str("info")) =>
          Len(ListAt(Str("info"))) >= Len(ListAt(Str("error")))
    /\ SeverityPair(Str("error"), Str("warning")) =>
          LET l == Leftover(ListAt(Str("error")), ListAt(Str("warning")))
          IN  /\ Len(ListAt(Str("warning"))) >= Len(ListAt(Str("error")))
              /\ l.found
              /\ \A i \in 1..Len(l.rest) : l.rest[i][1] = "warning"

\* an error run followed by a warning run that returned errors and dropped info issues
C2_Witness ==
    /\ SeverityPair(Str("error"), Str("warning"))
    /\ call.options.minSeverity = Str("warning")
    /\ \E i \in 1..Len(call.value.results) : call.value.results[i].level = "error"
    /\ Len(call.emitted) > Len(call.value.results)

\* C3: the summary of a returned result counts the returned (filtered) issue
\* list: total is its length, errors, warnings and info the number of its
\* issues of that level, and total = errors + warnings + info.
C3_SummaryMatchesFilteredList ==
    Returned =>
        LET summary == call.value.summary
            results == call.value.results
        IN  /\ summary.total = Len(results)
            /\ summary.errors = Cardinality({i \in 1..Len(results) : results[i].level = "error"})
            /\ summary.warnings
                 = Cardinality({i \in 1..Len(results) : results[i].level = "warning"})
            /\ summary.info = Cardinality({i \in 1..Len(results) : results[i].level = "info"})
            /\ summary.total = summary.errors + summary.warnings + summary.info

\* a returned result whose filter dropped issues and kept issues of two levels
C3_Witness ==
    /\ Returned
    /\ Len(call.emitted) > Len(call.value.results)
    /\ call.value.summary.errors > 0
    /\ call.value.summary.warnings > 0

\* C4: two calls in a row on the same spec object with the same options return
\* identical issue lists: the same issues with the same level, message,
\* location and suggestion, in the same order.
C4_RepeatedRunSameIssues ==
    (BothReturned /\ call.options = previous.options) =>
        Content(call.value.results) = Content(previous.value.results)

\* a repeated call whose first run sorted an enum and reported a common field
C4_Witness ==
    /\ BothReturned
    /\ call.options = previous.options
    /\ previous.specBefore # call.specBefore
    /\ previous.definitionsBefore # call.definitionsBefore
    /\ Len(call.value.results) > 0

\* C5: a call leaves the spec tree and the registry's definitions as they were
\* before it, enum sequences included.
C5_InputsUnchanged ==
    call.outcome # "none" =>
        /\ apiSpec = call.specBefore
        /\ commonFieldDefinitions = call.definitionsBefore

\* the known validators named in a list
KnownNamed(validators) ==
    {validators.a[i] : i \in {j \in 1..Len(validators.a) :
                                SeqIncludes(allValidators, validators.a[j])}}

Invoked == {call.invoked[i] : i \in 1..Len(call.invoked)}

\* C6: when options.validators is a list of names, the validators that run are
\* exactly the known validators the list names, and unknown names raise no
\* error; when it is 'all', all eleven run.
C6_SelectedValidatorsRun ==
    call.outcome # "none" =>
        /\ call.options.validators.k = "arr" =>
              Invoked = KnownNamed(call.options.validators)
        /\ call.options.validators = Str("all") =>
              call.invoked = allValidators

\* the place of a validator name in the declaration order
DeclarationIndex(name) == CHOOSE i \in 1..Len(allValidators) : allValidators[i] = name

\* a lists the elements of b, each as often, in some order
IsPermutation(a, b) ==
    /\ Len(a) = Len(b)
    /\ \A i \in 1..Len(a) :
          Cardinality({j \in 1..Len(a) : a[j] = a[i]})
            = Cardinality({j \in 1..Len(b) : b[j] = a[i]})

\* the last two calls listed the same validator names in different orders
\* and had the same minSeverity
Reordered ==
    /\ BothReturned
    /\ call.options.validators.k = "arr"
    /\ previous.options.validators.k = "arr"
    /\ call.options.validators # previous.options.validators
    /\ IsPermutation(call.options.validators.a, previous.options.validators.a)
    /\ call.options.minSeverity = previous.options.minSeverity

\* C7: validators are invoked in declaration order whatever the order of the
\* names in options.validators, so two calls that list the same names in
\* different orders return the same issue list; and severity filtering keeps
\* the issues it keeps in the order they were emitted.
C7_DeclarationOrder ==
    /\ call.outcome # "none" =>
          \A i, j \in 1..Len(call.invoked) :
              i < j => DeclarationIndex(call.invoked[i]) < DeclarationIndex(call.invoked[j])
    /\ Reordered => Content(call.value.results) = Content(previous.value.results)
    /\ Returned => Leftover(Content(call.value.results), Content(call.emitted)).found

\* the same two validators listed in both orders, each run returning issues of
\* both, with the filter dropping some
C7_Witness ==
    /\ Reordered
    /\ Len(call.invoked) = 2
    /\ call.options.validators.a[1] = call.invoked[2]
    /\ Len(call.value.results) >= 2
    /\ Len(call.emitted) > Len(call.value.results)

\* C8: every issue of a returned result carries the name of the validator that
\* emitted it, one of the eleven, besides its level, message, location and
\* suggestion.
C8_IssuesNameTheirValidator ==
    Returned =>
        \A i \in 1..Len(call.value.results) :
            /\ SeqIncludes(allValidators, call.value.results[i].validator)
            /\ call.value.results[i].level \in {"error", "warning", "info"}

\* C9: a call whose spec is not a mapping at the top level fails with
\* InvalidSpecError before any validator is invoked and produces no issue.
C9_NonMappingRejected ==
    (call.outcome # "none" /\ call.specBefore.k # "obj") =>
        /\ call.outcome = "InvalidSpecError"
        /\ call.invoked = <<>>
        /\ call.emitted = <<>>

\* C10: a call whose spec is a mapping at the top level always returns a
\* result: no validator throws on a malformed or absent part below it.
C10_NoThrowOnMalformedParts ==
    (call.outcome # "none" /\ call.specBefore.k = "obj") => call.outcome = "returned"

\* the tokens of the messages, locations and suggestions of an issue list
Wording(list) ==
    UNION {{list[i].message[j] : j \in 1..Len(list[i].message)}
           \cup {list[i].location[j] : j \in 1..Len(list[i].location)} : i \in 1..Len(list)}

\* C11: when config/common.yaml is missing or malformed, the load is not
\* fatal: the process keeps running, the registry is empty (getFieldCount()
\* is 0), a run of the common-fields validator emits no issue, and no issue of
\* any run names the load failure.
C11_LoadNotFatal ==
    commonYaml \in MalformedFiles =>
        /\ process = "running"
        /\ getFieldCount(commonFieldDefinitions) = 0
        /\ (Returned /\ call.options.validators = Names(<<"commonFields">>))
              => call.emitted = <<>>
        /\ Returned => Wording(call.emitted) \cap {"common.yaml", "config/common.yaml"} = {}

\* the canonical names registered, with the spellings the inputs give them
Registered ==
    {i \in 1..Len(Spellings) :
        \E j \in 1..Len(commonFieldDefinitions) :
            commonFieldDefinitions[j][1] = Spellings[i].canonical}

\* the last call asked getField for name
Asked(name) == call.outcome = "field" /\ call.fieldName = name

\* C12: for every canonical name in the registry, getField of its snake_case
\* spelling, of its camelCase spelling and of its exact spelling each returns
\* the definition stored under the canonical name, and so does the lookup
\* the common-fields validator makes with the lowercased property name.
C12_SpellingsFindDefinition ==
    \A i \in Registered :
        \A name \in {Spellings[i].canonical, Spellings[i].snake, Spellings[i].camel} :
            /\ Asked(name) =>
                  call.value = Lookup(commonFieldDefinitions, Spellings[i].canonical, 1)
            /\ MapGet(commonFieldMap, LowerChars(Chars(name))) = Str(Spellings[i].canonical)
\* the last call walked the schema Walked
Walked == call.outcome = "walked" /\ call.schemaName = "Walked"

\* the properties a walk of v is to visit: those nested through properties
\* and items, and for walkSchema also through allOf, anyOf and oneOf
RECURSIVE PropertyCount(_, _)
PropertyCountIn(members, composed) ==
    IF members.k # "arr" THEN 0
    ELSE LET RECURSIVE sum(_)
             sum(i) == IF i > Len(members.a) THEN 0
                       ELSE PropertyCount(members.a[i], composed) + sum(i + 1)
         IN  sum(1)
PropertyCount(v, composed) ==
    IF v.k # "obj" THEN 0
    ELSE LET properties == Get(v, "properties")
             RECURSIVE sum(_)
             sum(i) == IF i > KeyCount(properties) THEN 0
                       ELSE 1 + PropertyCount(ValueAt(properties, i), composed) + sum(i + 1)
         IN  sum(1) + PropertyCount(Get(v, "items"), composed)
             + (IF composed
                THEN PropertyCountIn(Get(v, "allOf"), composed)
                     + PropertyCountIn(Get(v, "anyOf"), composed)
                     + PropertyCountIn(Get(v, "oneOf"), composed)
                ELSE 0)

\* path tokens that begin, and that end, with the separator
OpensWithSeparator == {".", ".properties.", ".items", ".allOf[", ".anyOf[", ".oneOf["}
ClosesWithSeparator == {".", ".properties.", "properties."}

\* segments joined by single separators, none of them empty
WellFormedPath(path) ==
    /\ Len(path) > 0
    /\ path[1] \notin OpensWithSeparator
    /\ path[Len(path)] \notin ClosesWithSeparator
    /\ \A i \in 1..Len(path) : path[i] # ""
    /\ \A i \in 1..(Len(path) - 1) :
          ~(path[i] \in ClosesWithSeparator /\ path[i + 1] \in OpensWithSeparator)

\* C13: a walk of a schema with N properties nested through properties and
\* items (and compositions, for walkSchema) invokes the callback exactly N
\* times, and the N paths are pairwise distinct and well-formed, also when
\* items or a composition key is at the root of the schema.
C13_WalkVisitsEachPropertyOnce ==
    Walked =>
        /\ Len(call.visits) = PropertyCount(call.schema, call.walker = "walkSchema")
        /\ \A i, j \in 1..Len(call.visits) :
              i # j => call.visits[i].propPath # call.visits[j].propPath
        /\ \A i \in 1..Len(call.visits) : WellFormedPath(call.visits[i].propPath)

\* the value under the keys at of v
RECURSIVE NodeAt(_, _)
NodeAt(v, at) ==
    IF at = <<>> THEN v ELSE NodeAt(Lookup(Entries(v), Head(at), 1), Tail(at))

\* C14: a walk ends on every schema, also one whose $ref strings name the
\* schema itself or form a cycle: a $ref is never followed, so every visit is
\* of a property found in the walked schema itself and none is reached
\* through a $ref; and the walk changes nothing.
C14_WalkEndsWithoutFollowingRefs ==
    call.outcome = "walked" =>
        /\ ~call.threw
        /\ \A i \in 1..Len(call.visits) :
              /\ ~SeqIncludes(call.visits[i].at, "$ref")
              /\ call.visits[i].propName # "$ref"
              /\ NodeAt(call.schema, call.visits[i].at) = call.visits[i].propSchema
        /\ call.eff = <<>>
        /\ apiSpec = call.specBefore

\* a finished walk of a schema that refers to itself, with a property visited
\* whose schema is the reference
C14_Witness ==
    /\ Walked
    /\ call.schema \in RefSchemas
    /\ \E i \in 1..Len(call.visits) :
          call.visits[i].propSchema = RefTo("#/components/schemas/Walked")
\* the last call ran the validators named, alone, and returned
RanOnly(names) == Returned /\ call.options.validators = Names(names)

\* the issues emitted at a location
IssuesAt(location) == SelectSeq(call.emitted, LAMBDA r : r.location = location)

\* a description is valid iff it is a string of length >= 10 that starts with
\* A-Z and ends with one of . ! ? :
LacksCapital(d) == ~(Len(CharsOfValue(d)) > 0 /\ CharsOfValue(d)[1] \in UpperChars)
LacksPunctuation(d) ==
    ~(Len(CharsOfValue(d)) > 0
      /\ CharsOfValue(d)[Len(CharsOfValue(d))] \in {".", "!", "?", ":"})
LacksLength(d) == Len(CharsOfValue(d)) < 10
ValidText(d) ==
    d.k = "str" /\ ~LacksCapital(d) /\ ~LacksPunctuation(d) /\ ~LacksLength(d)

\* a suggestion that names exactly the rules d fails and echoes d
NamesFailedRules(suggestion, d) ==
    /\ suggestion.k = "text"
    /\ SeqIncludes(suggestion.t, "start with uppercase letter") <=> LacksCapital(d)
    /\ SeqIncludes(suggestion.t, "end with proper punctuation (. ! ? or :)")
          <=> LacksPunctuation(d)
    /\ SeqIncludes(suggestion.t, "be more descriptive (at least 10 characters)")
          <=> LacksLength(d)
    /\ \A j \in 1..Len(ToS(d)) : SeqIncludes(suggestion.t, ToS(d)[j])

\* what the description validator is to emit at location for a property
\* whose schema is propSchema
DescribedAsClaimed(propSchema, location) ==
    IF Get(propSchema, "description") = Undef
    THEN Len(IssuesAt(location)) = 1 /\ IssuesAt(location)[1].level = "error"
    ELSE IF ~ValidText(Get(propSchema, "description"))
    THEN /\ Len(IssuesAt(location)) = 1
         /\ IssuesAt(location)[1].level = "warning"
         /\ NamesFailedRules(IssuesAt(location)[1].suggestion, Get(propSchema, "description"))
    ELSE IssuesAt(location) = <<>>

\* C15: for every property of a components.schemas entry that the walker
\* visits, the description validator emits exactly one error at the
\* property's path when the property has no description, exactly one warning
\* when the description is present but not valid, its suggestion naming
\* exactly the failed rules and echoing the text, and nothing when the
\* description is valid.
C15_DescriptionIssuePerProperty ==
    RanOnly(<<"descriptions">>) =>
        \A k \in 1..KeyCount(SchemasOf(call.specBefore)) :
            LET visits == walkProperties(ValueAt(SchemasOf(call.specBefore), k),
                                         <<>>, <<>>).out
            IN  \A i \in 1..Len(visits) :
                    DescribedAsClaimed(visits[i].propSchema,
                        <<"components.schemas.", KeyAt(SchemasOf(call.specBefore), k), ".">>
                        \o visits[i].propPath)
\* the names a schema's required list holds that are no key of its properties
NotAmongProperties(schema) ==
    {i \in 1..KeyCount(Get(schema, "required")) :
        ~SeqIncludes(Keys(Get(schema, "properties")),
                     ValueAt(Get(schema, "required"), i).s)}

\* C16: every components.schemas entry whose required list holds a name x
\* that is not a key of its properties draws exactly one error from the
\* required-fields validator, whatever other properties it has, and also
\* when it has no properties key or no type: object.
C16_OneErrorPerAbsentRequired ==
    RanOnly(<<"requiredFields">>) =>
        \A k \in 1..KeyCount(SchemasOf(call.specBefore)) :
            Cardinality(NotAmongProperties(ValueAt(SchemasOf(call.specBefore), k))) = 1 =>
                Len(SelectSeq(IssuesAt(<<"components.schemas.",
                                         KeyAt(SchemasOf(call.specBefore), k)>>),
                              LAMBDA r : r.level = "error")) = 1
\* the issues of a level emitted at a location
LevelAt(level, location) == SelectSeq(IssuesAt(location), LAMBDA r : r.level = level)

\* a security list that holds at least one requirement
Applies(security) == security.k = "arr" /\ Len(security.a) > 0

\* C17: for every POST, PUT, PATCH or DELETE operation the security validator
\* emits exactly one error when there is no global security, no
\* operation-level security and no security: [] marking the operation
\* public; and no error when global or operation-level security applies or
\* when the operation is marked public, which draws an info instead.
C17_ErrorOnlyForUnsecuredMutation ==
    RanOnly(<<"security">>) =>
        \A p \in 1..KeyCount(PathsOf(call.specBefore)) :
            \A m \in 1..KeyCount(ValueAt(PathsOf(call.specBefore), p)) :
                LET pathName == KeyAt(PathsOf(call.specBefore), p)
                    method == KeyAt(ValueAt(PathsOf(call.specBefore), p), m)
                    security == Get(ValueAt(ValueAt(PathsOf(call.specBefore), p), m),
                                    "security")
                    errors == Len(LevelAt("error", <<pathName, ".", method>>))
                IN  method \in MutatingMethods =>
                        IF Applies(Get(call.specBefore, "security")) \/ Applies(security)
                        THEN errors = 0
                        ELSE IF security = Arr(<<>>)
                        THEN /\ errors = 0
                             /\ Len(LevelAt("info", <<pathName, ".", method>>)) = 1
                        ELSE errors = 1

\* the scheme names that the requirements of a security list reference
SchemesIn(security) ==
    IF security.k # "arr" THEN {}
    ELSE UNION {{KeyAt(security.a[i], j) : j \in 1..KeyCount(security.a[i])} :
                  i \in 1..Len(security.a)}

\* the scheme names referenced by the top-level list or by an operation's list
SchemesReferenced(spec) ==
    SchemesIn(Get(spec, "security"))
    \cup UNION {UNION {SchemesIn(Get(ValueAt(ValueAt(PathsOf(spec), p), m), "security")) :
                         m \in 1..KeyCount(ValueAt(PathsOf(spec), p))} :
                  p \in 1..KeyCount(PathsOf(spec))}

\* C18: every scheme name referenced by a security requirement, in the
\* top-level security list or in an operation's own, that is not a key of
\* components.securitySchemes draws an error from the security validator.
C18_UndefinedSchemeIsError ==
    RanOnly(<<"security">>) =>
        \A name \in SchemesReferenced(call.specBefore) :
            GetOpt(Get(call.specBefore, "components"), "securitySchemes").k # "obj"
            \/ Get(GetOpt(Get(call.specBefore, "components"), "securitySchemes"), name) = Undef
            => \E i \in 1..Len(call.emitted) :
                  /\ call.emitted[i].level = "error"
                  /\ SeqIncludes(call.emitted[i].message, name)
\* C19: for every spec without a top-level openapi field the versioning
\* validator emits an error at location 'openapi'; for every spec whose
\* openapi value does not start with "3." it emits a warning there.
C19_OpenapiFieldChecked ==
    RanOnly(<<"versioning">>) =>
        /\ Get(call.specBefore, "openapi") = Undef
              => Len(LevelAt("error", <<"openapi">>)) > 0
        /\ (Get(call.specBefore, "openapi").k = "str"
            /\ ~HasPrefix(Chars(Get(call.specBefore, "openapi").s), <<"3", ".">>))
              => Len(LevelAt("warning", <<"openapi">>)) > 0

\* C20: runValidation with validators: ['descriptions'] on a spec whose info
\* section has no description returns a summary whose errors count is
\* greater than 0.
C20_MissingInfoDescriptionIsError ==
    (RanOnly(<<"descriptions">>)
     /\ Get(call.specBefore, "info").k = "obj"
     /\ Get(Get(call.specBefore, "info"), "description") = Undef)
        => call.value.summary.errors > 0

\* the operations of a spec, as <<pathName, method, operation>>
OperationsOf(spec) ==
    UNION {{<<KeyAt(PathsOf(spec), p), KeyAt(ValueAt(PathsOf(spec), p), m),
              ValueAt(ValueAt(PathsOf(spec), p), m)>> :
               m \in 1..KeyCount(ValueAt(PathsOf(spec), p))} :
             p \in 1..KeyCount(PathsOf(spec))}

\* the status codes 400-599 that the inputs use
IsErrorStatus(statusCode) == statusCode \in {"400", "401", "403", "404", "500"}

\* the application/json schema of a response
BodySchema(response) ==
    GetOpt(GetOpt(GetOpt(response, "content"), "application/json"), "schema")

\* a schema names none of the fields error, message and errors
LacksErrorFields(schema) ==
    /\ GetOpt(GetOpt(schema, "properties"), "error") = Undef
    /\ GetOpt(GetOpt(schema, "properties"), "message") = Undef
    /\ GetOpt(GetOpt(schema, "properties"), "errors") = Undef

\* C21: an error response (status 400-599) that has a description and an
\* application/json schema given as a $ref to a component schema draws no
\* issue from the error responses validator; and the warning about missing
\* error information is emitted only for a response whose schema lacks the
\* fields error, message and errors.
C21_RefErrorResponseIsClean ==
    RanOnly(<<"errorResponses">>) =>
        \A op \in OperationsOf(call.specBefore) :
            \A c \in 1..KeyCount(GetOpt(op[3], "responses")) :
                LET statusCode == KeyAt(Get(op[3], "responses"), c)
                    response == ValueAt(Get(op[3], "responses"), c)
                    respLocation == <<op[1], ".", op[2], ".responses.", statusCode>>
                IN  IsErrorStatus(statusCode) =>
                      /\ (T3(Get(response, "description")) = "T"
                          /\ Get(BodySchema(response), "$ref").k = "str")
                            => IssuesAt(respLocation) = <<>>
                      /\ (\E i \in 1..Len(call.emitted) :
                             /\ call.emitted[i].location = respLocation
                             /\ call.emitted[i].message
                                  = <<"Error response ", statusCode,
                                      " schema should contain error information.">>)
                            => LacksErrorFields(BodySchema(response))

\* the status codes 200-299 that the inputs use
IsSuccessStatus(statusCode) == statusCode \in {"200", "201", "204"}

\* the status codes an operation declares
DeclaredCodes(operation) ==
    {KeyAt(Get(operation, "responses"), c) :
        c \in 1..KeyCount(GetOpt(operation, "responses"))}

\* the 'no success responses' warnings emitted for an operation
NoSuccessWarnings(pathName, method) ==
    SelectSeq(LevelAt("warning", <<pathName, ".", method>>),
              LAMBDA r : r.message = <<"Endpoint ", Upper(method), " ", pathName,
                                       " has no success responses (2xx).">>)

\* C25: for every operation that declares zero 2xx response codes, an empty
\* responses mapping and a missing responses key included, the response
\* schemas validator emits exactly one 'no success responses' warning.
C25_OneWarningWithoutSuccessCode ==
    RanOnly(<<"responseSchemas">>) =>
        \A op \in OperationsOf(call.specBefore) :
            (\A code \in DeclaredCodes(op[3]) : ~IsSuccessStatus(code))
                => Len(NoSuccessWarnings(op[1], op[2])) = 1

\* an issue as enriched holds every field of the plain issue, unchanged
OnlyAdds(enriched, plain) ==
    \A field \in DOMAIN plain : field \in DOMAIN enriched /\ enriched[field] = plain[field]

\* the emitted issues of the last call that pass its minSeverity
SeverityFiltered ==
    filterBySeverity(call.emitted, DefaultOf(call.options.minSeverity, Str("warning")))

\* the last two calls were made with the same minSeverity and validators,
\* one of them with AI enrichment in effect and the other without
EnrichedAndPlain ==
    /\ BothReturned
    /\ call.options.minSeverity = previous.options.minSeverity
    /\ call.options.validators = previous.options.validators
    /\ call.value.metadata.aiEnhanced # previous.value.metadata.aiEnhanced

\* C22: AI enrichment never changes the core result. Whether it is disabled,
\* succeeds or fails for any of the issues, the returned list has the length
\* and order of the severity-filtered list, every issue keeps its level,
\* message, location and suggestion (enrichment only adds fields), and the
\* summary counts are those of a run without enrichment.
C22_EnrichmentKeepsCoreResult ==
    /\ Returned =>
          /\ Len(call.value.results) = Len(SeverityFiltered)
          /\ \A i \in 1..Len(SeverityFiltered) :
                OnlyAdds(call.value.results[i], SeverityFiltered[i])
          /\ call.value.summary = Summary(SeverityFiltered)
    /\ EnrichedAndPlain =>
          /\ Content(call.value.results) = Content(previous.value.results)
          /\ call.value.summary = previous.value.summary

\* a run without enrichment followed by an enriched run of more than
\* TopIssueCount issues in which one request succeeded and another failed
C22_Witness ==
    /\ EnrichedAndPlain
    /\ call.value.metadata.aiEnhanced
    /\ Len(call.value.results) > TopIssueCount
    /\ \E i, j \in 1..TopIssueCount :
          /\ "ai_suggestion" \in DOMAIN call.value.results[i]
          /\ "ai_error" \in DOMAIN call.value.results[j]

\* the properties of the component schemas of a spec, as
\* <<schemaName, propName, propSchema>>
ComponentProperties(spec) ==
    UNION {{<<KeyAt(SchemasOf(spec), s), KeyAt(Get(ValueAt(SchemasOf(spec), s), "properties"), p),
              ValueAt(Get(ValueAt(SchemasOf(spec), s), "properties"), p)>> :
               p \in 1..KeyCount(GetOpt(ValueAt(SchemasOf(spec), s), "properties"))} :
             s \in 1..KeyCount(SchemasOf(spec))}

\* the registry definition a property name resolves to, Undef if none
Canonical(propName) ==
    IF MapGet(commonFieldMap, LowerChars(Chars(propName))) = Undef THEN Undef
    ELSE Lookup(call.definitionsBefore,
                MapGet(commonFieldMap, LowerChars(Chars(propName))).s, 1)

\* the values an enum keyword lists, none when the keyword is absent
ValueSet(enum) == IF enum.k = "arr" THEN {enum.a[i] : i \in 1..Len(enum.a)} ELSE {}

\* format with absent counting as 'none'
FormatOrNone(schema) == OrElse(Get(schema, "format"), Str("none"))

\* a property schema differs from a definition in one of the compared keywords
Differs(propSchema, def) ==
    \/ Get(propSchema, "type") # Get(def, "type")
    \/ FormatOrNone(propSchema) # FormatOrNone(def)
    \/ Get(propSchema, "pattern") # Get(def, "pattern")
    \/ Get(propSchema, "minLength") # Get(def, "minLength")
    \/ Get(propSchema, "maxLength") # Get(def, "maxLength")
    \/ ValueSet(Get(propSchema, "enum")) # ValueSet(Get(def, "enum"))

\* where the common fields validator reports a property of a component schema
FieldLocation(schemaName, propName) == <<"components.schemas.", schemaName, ".", propName>>

\* C23: for every property occurrence whose name resolves to a registry
\* definition the common fields validator emits exactly one warning if the
\* property differs from the definition in type, format (absent counting as
\* 'none' on either side), pattern, minLength, maxLength or enum, and no issue
\* if all agree; a property whose name has no registry match yields no issue.
C23_OneWarningPerDifferingField ==
    RanOnly(<<"commonFields">>) =>
        \A property \in ComponentProperties(call.specBefore) :
            IF Canonical(property[2]) # Undef /\ Differs(property[3], Canonical(property[2]))
            THEN /\ Len(LevelAt("warning", FieldLocation(property[1], property[2]))) = 1
                 /\ Len(IssuesAt(FieldLocation(property[1], property[2]))) = 1
            ELSE IssuesAt(FieldLocation(property[1], property[2])) = <<>>

\* the warning at a location reports an enum mismatch
EnumMismatchAt(location) ==
    \E i \in 1..Len(call.emitted) :
        /\ call.emitted[i].location = location
        /\ SeqIncludes(call.emitted[i].suggestion.t, "Enum values mismatch")

\* C24: the enum comparison compares value sets. A property whose enum holds
\* the same set of values as the canonical enum is not reported as an enum
\* mismatch, whatever the order or repetition of the values, and a property
\* whose set of values differs is reported.
C24_EnumComparedAsSets ==
    RanOnly(<<"commonFields">>) =>
        \A property \in ComponentProperties(call.specBefore) :
            (Canonical(property[2]) # Undef /\ Get(Canonical(property[2]), "enum") # Undef)
                => (EnumMismatchAt(FieldLocation(property[1], property[2]))
                    <=> ValueSet(Get(property[3], "enum"))
                          # ValueSet(Get(Canonical(property[2]), "enum")))

\* the parameters an operation declares with in: path
DeclaredInPath(operation) ==
    IF GetOpt(operation, "parameters").k # "arr" THEN {}
    ELSE {Get(operation, "parameters").a[i] : i \in 1..Len(Get(operation, "parameters").a)}
         \cap {param \in {Get(operation, "parameters").a[i] :
                             i \in 1..Len(Get(operation, "parameters").a)} :
                 Get(param, "in") = Str("path")}

\* an issue of the level whose message is about the parameter and ends so
ParameterIssue(level, pathName, method, param, ending) ==
    \E i \in 1..Len(call.emitted) :
        /\ call.emitted[i].level = level
        /\ call.emitted[i].location = <<pathName, ".", method, ".parameters">>
        /\ call.emitted[i].message = <<"Path parameter '", Get(param, "name").s, ending>>

\* {name} occurs in the path template
IsPlaceholder(pathName, name) ==
    \E i \in 1..Len(Chars(pathName)) :
        /\ Chars(pathName)[i] = "{"
        /\ HasPrefix(SubSeq(Chars(pathName), i + 1, Len(Chars(pathName))),
                     Chars(name) \o <<"}">>)

\* C26: for every parameter declared with in: path on any operation of any
\* path, whether or not the path template holds a placeholder, the path
\* parameters validator emits an error if required is not literally true, an
\* error if schema is missing, a warning if description is missing, and a
\* warning if the parameter's name is not a placeholder of the template.
C26_EveryPathParameterChecked ==
    RanOnly(<<"pathParameters">>) =>
        \A op \in OperationsOf(call.specBefore) :
            \A param \in DeclaredInPath(op[3]) :
                /\ Get(param, "required") # Bool(TRUE)
                      => ParameterIssue("error", op[1], op[2], param, "' must be required.")
                /\ Get(param, "schema") = Undef
                      => ParameterIssue("error", op[1], op[2], param, "' has no schema defined.")
                /\ Get(param, "description") = Undef
                      => ParameterIssue("warning", op[1], op[2], param,
                                        "' is missing description.")
                /\ ~IsPlaceholder(op[1], Get(param, "name").s)
                      => ParameterIssue("warning", op[1], op[2], param,
                                        "' is defined but not used in path template.")

\* the strings that the $ref keys of a document hold, at any depth
RECURSIVE RefTargets(_)
RefTargets(v) ==
    CASE v.k = "obj" ->
           (IF Get(v, "$ref").k = "str" THEN {Get(v, "$ref").s} ELSE {})
           \cup UNION {RefTargets(v.o[i][2]) : i \in 1..Len(v.o)}
      [] v.k = "arr" -> UNION {RefTargets(v.a[i]) : i \in 1..Len(v.a)}
      [] OTHER -> {}

\* some $ref of the spec targets #/components/schemas/S
Referenced(spec, S) ==
    \E ref \in RefTargets(spec) : Chars(ref) = SchemaRefPrefix \o Chars(S)

\* S is a key of components.schemas
IsDefined(spec, S) == GetOpt(GetOpt(GetOpt(spec, "components"), "schemas"), S) # Undef

\* the issues of a level emitted with a message
CountOf(level, message) ==
    Len(SelectSeq(call.emitted, LAMBDA r : r.level = level /\ r.message = message))

NotDefinedErrors(S) ==
    CountOf("error", <<"Referenced schema '", S, "' is not defined in components.schemas.">>)
NeverUsedInfos(S) ==
    CountOf("info", <<"Schema '", S, "' is defined but never used.">>)

\* C27: for every schema name S the components validator emits exactly one
\* 'referenced but not defined' error iff some $ref of the document targets
\* #/components/schemas/S and S is not a key of components.schemas, and
\* exactly one 'defined but never used' info iff S is a key of
\* components.schemas and no $ref targets it; a name that is both defined
\* and referenced yields neither.
C27_UndefinedAndUnusedSchemas ==
    RanOnly(<<"components">>) =>
        \A S \in SchemaNames :
            /\ NotDefinedErrors(S)
                 = (IF Referenced(call.specBefore, S) /\ ~IsDefined(call.specBefore, S)
                    THEN 1 ELSE 0)
            /\ NeverUsedInfos(S)
                 = (IF IsDefined(call.specBefore, S) /\ ~Referenced(call.specBefore, S)
                    THEN 1 ELSE 0)

\* a run on a spec that references Ghost twice without defining it, defines
\* Pet without referencing it, and references the defined Owner
C27_Witness ==
    /\ RanOnly(<<"components">>)
    /\ NotDefinedErrors("Ghost") = 1
    /\ NeverUsedInfos("Pet") = 1
    /\ IsDefined(call.specBefore, "Owner") /\ Referenced(call.specBefore, "Owner")
    /\ NotDefinedErrors("Owner") = 0 /\ NeverUsedInfos("Owner") = 0

\* the HTTP methods an operation can have
OperationKeys == {"get", "post", "put", "patch", "delete", "options", "head", "trace"}

\* the issues emitted at or below the entry key of a path item
IssuesUnder(pathName, key) ==
    SelectSeq(call.emitted, LAMBDA r : HasPrefix(r.location, <<pathName, ".", key>>))

\* C28: only the HTTP-method entries of a path item are treated as
\* operations. A key that is not an HTTP method, such as a path-level
\* parameters or servers list, never draws an operation-level issue ('no
\* error responses defined', 'no security defined', 'missing description or
\* summary').
C28_OnlyMethodsAreOperations ==
    Returned =>
        \A op \in OperationsOf(call.specBefore) :
            op[2] \notin OperationKeys => IssuesUnder(op[1], op[2]) = <<>>

\* The settings: where the configuration holds each, the environment variable
\* that sets it, how the variable's string is read, and the built-in default.
Settings ==
    {[at |-> <<"ai", "gemini", "apiKey">>, variable |-> "GEMINI_API_KEY",
      read |-> "string", default |-> Str("")],
     [at |-> <<"ai", "gemini", "model">>, variable |-> "GEMINI_MODEL",
      read |-> "string", default |-> Str("gemini-1.5-flash")],
     [at |-> <<"ai", "gemini", "temperature">>, variable |-> "GEMINI_TEMPERATURE",
      read |-> "float", default |-> Float(0, <<"7">>)],
     [at |-> <<"ai", "gemini", "maxTokens">>, variable |-> "GEMINI_MAX_TOKENS",
      read |-> "integer", default |-> Num(8192)],
     [at |-> <<"validation", "defaultStrategy">>, variable |-> "VALIDATION_STRATEGY",
      read |-> "string", default |-> Str("inline")],
     [at |-> <<"validation", "minSeverity">>, variable |-> "MIN_SEVERITY",
      read |-> "string", default |-> Str("warning")],
     [at |-> <<"validation", "failOnError">>, variable |-> "FAIL_ON_ERROR",
      read |-> "isTrue", default |-> Bool(FALSE)],
     [at |-> <<"output", "format">>, variable |-> "OUTPUT_FORMAT",
      read |-> "string", default |-> Str("text")],
     [at |-> <<"output", "colorize">>, variable |-> "COLORIZE",
      read |-> "isNotFalse", default |-> Bool(TRUE)],
     [at |-> <<"output", "verbose">>, variable |-> "VERBOSE",
      read |-> "isTrue", default |-> Bool(FALSE)],
     [at |-> <<"server", "port">>, variable |-> "PORT",
      read |-> "integer", default |-> Num(3000)],
     [at |-> <<"server", "host">>, variable |-> "HOST",
      read |-> "string", default |-> Str("localhost")],
     [at |-> <<"server", "corsEnabled">>, variable |-> "CORS_ENABLED",
      read |-> "isNotFalse", default |-> Bool(TRUE)]}

\* the value at a path of keys, Undef if there is none
RECURSIVE ValueAtPath(_, _)
ValueAtPath(v, at) ==
    IF at = <<>> THEN v ELSE ValueAtPath(GetOpt(v, Head(at)), Tail(at))

\* the value an environment variable's string gives a setting
ReadAs(read, string) ==
    CASE read = "string" -> string
      [] read = "float" -> parseFloat(string.s)
      [] read = "integer" -> IntegerOf(string.s)
      [] read = "isTrue" -> Bool(string = Str("true"))
      [] read = "isNotFalse" -> Bool(string # Str("false"))

\* what config.yaml holds for a setting, Undef if the file is missing or
\* unparsable or does not hold it
InFile(file, setting) ==
    IF file.k = "yaml" THEN ValueAtPath(file.document, setting.at) ELSE Undef

\* the value of a setting by the documented priority
ByPriority(env, file, setting) ==
    IF Get(env, setting.variable) # Undef
    THEN ReadAs(setting.read, Get(env, setting.variable))
    ELSE IF InFile(file, setting) # Undef THEN InFile(file, setting)
    ELSE setting.default

\* C29: ConfigManager.loadConfig resolves every setting by the documented
\* priority: a value set by an environment variable wins over the value in
\* config.yaml, which wins over the built-in default.
C29_EnvironmentOverFileOverDefault ==
    call.outcome = "configured" =>
        \A setting \in Settings :
            ValueAtPath(call.config, setting.at) = ByPriority(call.env, call.file, setting)

\* the requests in flight are the pending ones of the call in progress
InFlight == IF call.outcome = "enhancing" THEN call.pending ELSE {}

\* the number of the batch an issue belongs to
BatchNumber(i) == (i - 1) \div call.maxConcurrent

\* at most maxConcurrent requests in flight, all of one batch, and every
\* request of an earlier batch completed
OneBatchInFlight ==
    call.outcome \in {"enhancing", "enhanced"} =>
        /\ Cardinality(InFlight) <= call.maxConcurrent
        /\ \A i \in InFlight : \A j \in call.started :
              BatchNumber(j) < BatchNumber(i) => call.settled[j] # NoResult
        /\ \A i, j \in InFlight : BatchNumber(i) = BatchNumber(j)

\* the call has returned one result per input issue, in the issues' order
OneResultPerIssue ==
    /\ call.outcome = "enhanced"
    /\ Len(call.results) = Len(call.issues)
    /\ \A i \in 1..Len(call.issues) : OnlyAdds(call.results[i], call.issues[i])

\* C30: during enhanceBatchWithAI at most maxConcurrent (default 3) AI
\* requests are in flight at every moment; a request of a later batch is
\* started only after every request of the previous batch has completed,
\* whether it succeeded, failed or timed out; and the call eventually returns
\* one result per input issue.
C30_BatchesBoundRequestsAndReturn ==
    /\ []OneBatchInFlight
    /\ [](call.outcome = "enhanced" => OneResultPerIssue)
    /\ (call.outcome = "enhancing") ~> OneResultPerIssue

\* the second batch of a call with five issues and the default maxConcurrent
\* is in flight after the first batch's requests succeeded, failed and timed out
C30_Witness ==
    /\ call.outcome = "enhancing"
    /\ call.maxConcurrent = MaxConcurrentDefault
    /\ call.pending = {4, 5}
    /\ "ai_suggestion" \in DOMAIN call.results[1]
    /\ "ai_error" \in DOMAIN call.results[2]
    /\ "ai_error" \in DOMAIN call.results[3]
    /\ call.results[2].ai_error = "Gemini API request failed: error.message"
    /\ call.results[3].ai_error = "Gemini API request timed out"
====
